---- MODULE Spec2Model ----
(***************************************************************************)
(* SphagnumDB: a three-node in-memory key-value cluster.  Every node owns  *)
(* a string store, a set of connected peers and a replica set; its event   *)
(* loop (SphagnumNode::handle_event) consumes the events of a libp2p swarm *)
(* and answers inbound requests, fanning mutating client requests out to   *)
(* its replicas.                                                           *)
(***************************************************************************)
EXTENDS Integers, Sequences, FiniteSets, TLC

VARIABLES
    data_storage,               \* node -> keyspace (StringStore.data)
    passport,                   \* node -> Passport.field
    connected_peers,            \* node -> set of peer ids
    replica_set,                \* node -> set of peer ids
    is_pinging_output_enabled,  \* node -> BOOLEAN
    swarm_events,               \* node -> events the swarm has ready, oldest first
    wire,                       \* <<from, to>> -> messages in flight, oldest first
    links,                      \* {a, b} -> number of established connections
    dialing,                    \* dials not yet resolved: <<from, to, accepted>>
    listeners,                  \* node -> addresses its swarm listens on
    pc,                         \* node -> position of its handle_event call
    alive,                      \* node -> its event-loop task has not panicked
    next_request_id,            \* node -> next OutboundRequestId of its swarm
    budget,                     \* calls and transport faults still to come
    applied,                    \* history: node -> origin -> times applied
    handled,                    \* history: origin -> the client request and its first hop
    mutex,                      \* node -> tasks holding the guard of its tokio Mutex
    task,                       \* where each task stands with respect to the mutexes
    log,                        \* history: node -> the calls made on its engine and passport
    last                        \* history: what the latest step did

vars == <<data_storage, passport, connected_peers, replica_set,
          is_pinging_output_enabled, swarm_events, wire, links, dialing, pc,
          alive, next_request_id, budget, mutex, task, listeners, applied, handled, log,
          last>>

\* The state of the node mutexes and of the tasks that take them.
locks == <<mutex, task>>

-----------------------------------------------------------------------------
(* Bounds of the model                                                     *)

NumNodes == 3

\* Spec: one dial, two replica-set additions, one client request.
MaxDials == 1
MaxReplicaAdds == 2
MaxClientRequests == 1

\* SpecConn: connections opening and closing.
ConnMaxDials == 2
ConnMaxCloses == 1

\* SpecLocal: local commands on a node with a connected replica.
LocalMaxDials == 1
LocalMaxReplicaAdds == 1
LocalMaxCommands == 1

\* SpecCluster: the cluster main.rs builds, and the requests sent into it.
ClusterMaxRequests == 1

Nodes == 1..NumNodes
Pairs == {{a, b} : a, b \in Nodes} \ {{a} : a \in Nodes}
Routes == {r \in Nodes \X Nodes : r[1] # r[2]}
KeySet == {"k"}

-----------------------------------------------------------------------------
(* Commands and results (core/commands)                                    *)

StringCommand_Set(key, value) ==
    [family |-> "String", op |-> "Set", key |-> key, value |-> value, keys |-> <<>>]
StringCommand_Get(key) ==
    [family |-> "String", op |-> "Get", key |-> key, value |-> "", keys |-> <<>>]
StringCommand_Append(key, value) ==
    [family |-> "String", op |-> "Append", key |-> key, value |-> value, keys |-> <<>>]
GenericCommand_Exists(keys) ==
    [family |-> "Generic", op |-> "Exists", key |-> "", value |-> "", keys |-> keys]
GenericCommand_Delete(keys) ==
    [family |-> "Generic", op |-> "Delete", key |-> "", value |-> "", keys |-> keys]
NoCommand ==
    [family |-> "None", op |-> "None", key |-> "", value |-> "", keys |-> <<>>]

CommandResult_String(s) == [kind |-> "String", s |-> s, n |-> 0]
CommandResult_Int(n) == [kind |-> "Int", s |-> "", n |-> n]
CommandResult_Nil == [kind |-> "Nil", s |-> "", n |-> 0]

\* Err(Box<dyn Error>) holding io::Error::new(ErrorKind::InvalidInput, message),
\* and what {:?} prints for it.
IoError(message) == [kind |-> "Err", s |-> message, n |-> 0]
DebugError(e) == "Custom { kind: InvalidInput, error: \"" \o e.s \o "\" }"

\* The commands the clients of the model issue.
Commands ==
    {StringCommand_Set("k", "v"), StringCommand_Get("k"),
     StringCommand_Append("k", "w"), GenericCommand_Exists(<<"k">>),
     GenericCommand_Delete(<<"k">>)}

-----------------------------------------------------------------------------
(* StringStore (core/data_types/string.rs).  A store is a function whose   *)
(* domain is the set of present keys.  Every operation yields the store    *)
(* after the call and the value returned.                                  *)

StringStore_new == [k \in {} |-> ""]

\* Faulty variant: a key already present keeps its value.
StringStore_set_if_absent(data, key, value) ==
    [data |-> [x \in DOMAIN data \cup {key} |-> IF x \in DOMAIN data THEN data[x] ELSE value],
     ret |-> TRUE]

\* Faulty variant: the value is pushed onto the one already bound.
StringStore_set_pushing(data, key, value) ==
    [data |-> [x \in DOMAIN data \cup {key} |->
                  IF x # key THEN data[x]
                  ELSE IF key \in DOMAIN data THEN data[key] \o value ELSE value],
     ret |-> TRUE]

StringStore_set(data, key, value) ==
    [data |-> [x \in DOMAIN data \cup {key} |-> IF x = key THEN value ELSE data[x]],
     ret |-> TRUE]

StringStore_get(data, key) ==
    IF key \in DOMAIN data THEN [some |-> TRUE, s |-> data[key]]
                           ELSE [some |-> FALSE, s |-> ""]

\* Faulty variant: the value is pushed onto every value of the store.
StringStore_append_everywhere(data, key, value) ==
    LET entry == (IF key \in DOMAIN data THEN data[key] ELSE "") \o value
    IN  [data |-> [x \in DOMAIN data \cup {key} |->
                      IF x = key THEN entry ELSE data[x] \o value],
         ret |-> Len(entry)]

\* Faulty variant: the length returned is that of the argument.
StringStore_append_len_of_arg(data, key, value) ==
    LET entry == (IF key \in DOMAIN data THEN data[key] ELSE "") \o value
    IN  [data |-> [x \in DOMAIN data \cup {key} |-> IF x = key THEN entry ELSE data[x]],
         ret |-> Len(value)]

\* Faulty variant: an absent key is not created.
StringStore_append_if_present(data, key, value) ==
    IF key \in DOMAIN data
    THEN [data |-> [data EXCEPT ![key] = @ \o value], ret |-> Len(data[key] \o value)]
    ELSE [data |-> data, ret |-> 0]

StringStore_append(data, key, value) ==
    LET entry == (IF key \in DOMAIN data THEN data[key] ELSE "") \o value
    IN  [data |-> [x \in DOMAIN data \cup {key} |-> IF x = key THEN entry ELSE data[x]],
         ret |-> Len(entry)]

\* Faulty variant: a key listed twice counts once.
StringStore_exists_distinct(data, keys) ==
    Cardinality({keys[i] : i \in 1..Len(keys)} \cap DOMAIN data)

StringStore_exists(data, keys) ==
    Cardinality({i \in 1..Len(keys) : keys[i] \in DOMAIN data})

\* Faulty variant: every listed position of a present key counts.
StringStore_delete_from_counting_positions(data, keys, i, count) ==
    [data |-> [x \in DOMAIN data \ {keys[j] : j \in i..Len(keys)} |-> data[x]],
     ret |-> count + Cardinality({j \in i..Len(keys) : keys[j] \in DOMAIN data})]

\* Faulty variant: only the first listed key is removed.
StringStore_delete_from_first_only(data, keys, i, count) ==
    IF i > Len(keys) THEN [data |-> data, ret |-> count]
    ELSE [data |-> [x \in DOMAIN data \ {keys[i]} |-> data[x]],
          ret |-> count + Cardinality({keys[i]} \cap DOMAIN data)]

RECURSIVE StringStore_delete_from(_, _, _, _)
StringStore_delete_from(data, keys, i, count) ==
    IF i > Len(keys) THEN [data |-> data, ret |-> count]
    ELSE IF keys[i] \in DOMAIN data
         THEN StringStore_delete_from([x \in DOMAIN data \ {keys[i]} |-> data[x]],
                                      keys, i + 1, count + 1)
         ELSE StringStore_delete_from(data, keys, i + 1, count)

\* Faulty variant: the keys are counted and left in place.
StringStore_delete_keeping(data, keys) ==
    [data |-> data, ret |-> StringStore_delete_from(data, keys, 1, 0).ret]

\* Faulty variant: the whole store is emptied.
StringStore_delete_clearing(data, keys) ==
    [data |-> StringStore_new, ret |-> StringStore_delete_from(data, keys, 1, 0).ret]

StringStore_delete(data, keys) == StringStore_delete_from(data, keys, 1, 0)

\* Result<CommandResult, _>: ok, the value, and the store afterwards.
\* Faulty variant: Append answers with the string it built.
StringStore_handle_command_append_str(data, command) ==
    CASE command.op = "Set" ->
            [ok |-> TRUE, val |-> CommandResult_String("OK"),
             data |-> StringStore_set(data, command.key, command.value).data]
      [] command.op = "Get" ->
            LET result == StringStore_get(data, command.key)
            IN  [ok |-> TRUE,
                 val |-> IF result.some THEN CommandResult_String(result.s)
                                        ELSE CommandResult_Nil,
                 data |-> data]
      [] command.op = "Append" ->
            LET r == StringStore_append(data, command.key, command.value)
            IN  [ok |-> TRUE, val |-> CommandResult_String(r.data[command.key]),
                 data |-> r.data]
      [] command.op = "Exists" ->
            [ok |-> TRUE, val |-> CommandResult_Int(StringStore_exists(data, command.keys)),
             data |-> data]
      [] command.op = "Delete" ->
            LET r == StringStore_delete(data, command.keys)
            IN  [ok |-> TRUE, val |-> CommandResult_Int(r.ret), data |-> r.data]
      [] OTHER ->
            [ok |-> FALSE, val |-> IoError("Command not supported by StringStore"),
             data |-> data]

StringStore_handle_command(data, command) ==
    CASE command.op = "Set" ->
            [ok |-> TRUE, val |-> CommandResult_String("OK"),
             data |-> StringStore_set(data, command.key, command.value).data]
      [] command.op = "Get" ->
            LET result == StringStore_get(data, command.key)
            IN  [ok |-> TRUE,
                 val |-> IF result.some THEN CommandResult_String(result.s)
                                        ELSE CommandResult_Nil,
                 data |-> data]
      [] command.op = "Append" ->
            LET r == StringStore_append(data, command.key, command.value)
            IN  [ok |-> TRUE, val |-> CommandResult_Int(r.ret), data |-> r.data]
      [] command.op = "Exists" ->
            [ok |-> TRUE, val |-> CommandResult_Int(StringStore_exists(data, command.keys)),
             data |-> data]
      [] command.op = "Delete" ->
            LET r == StringStore_delete(data, command.keys)
            IN  [ok |-> TRUE, val |-> CommandResult_Int(r.ret), data |-> r.data]
      [] OTHER ->
            [ok |-> FALSE, val |-> IoError("Command not supported by StringStore"),
             data |-> data]

\* The node's engine hands every command to its string store; an engine that
\* cannot apply the command (budget.rejecting) returns an error and keeps its
\* data.
DataStorage_handle_command(data, command) ==
    IF budget.rejecting
    THEN [ok |-> FALSE, val |-> IoError("Command not supported by this engine"),
          data |-> data]
    ELSE StringStore_handle_command(data, command)

-----------------------------------------------------------------------------
(* Passport (core/passport.rs)                                             *)

PassportError(name) == [kind |-> "PassportError", s |-> name, n |-> 0]
PassportOk == [kind |-> "Ok", s |-> "", n |-> 0]

Passport_new == "lawn"

Passport_get_field(field) ==
    IF field = "" THEN [ok |-> FALSE, val |-> PassportError("FieldRetrievalError")]
                  ELSE [ok |-> TRUE, val |-> CommandResult_String(field)]

\* Faulty variant: the empty string is stored like any other.
Passport_set_field_unchecked(field, new_field) ==
    [ok |-> TRUE, val |-> PassportOk, field |-> new_field]

\* Faulty variant: the field is assigned before the argument is checked.
Passport_set_field_then_check(field, new_field) ==
    [ok |-> new_field # "",
     val |-> IF new_field = "" THEN PassportError("FieldModificationError") ELSE PassportOk,
     field |-> new_field]

Passport_set_field(field, new_field) ==
    IF new_field = ""
    THEN [ok |-> FALSE, val |-> PassportError("FieldModificationError"), field |-> field]
    ELSE [ok |-> TRUE, val |-> PassportOk, field |-> new_field]

-----------------------------------------------------------------------------
(* The libp2p swarm, as the node sees it: events it yields and requests    *)
(* and responses it carries.                                               *)

SwarmEvent(type, peer) ==
    [type |-> type, peer |-> peer, command |-> NoCommand, is_replication |-> FALSE,
     payload |-> "", origin |-> 0, channel_open |-> TRUE, num_established |-> 0]

\* Event kinds handle_event has a case for and only logs, and kinds it has
\* no case for.
LogOnlyEvents ==
    {"NewListenAddr", "NewExternalAddrCandidate", "Ping", "ResponseSent", "InboundFailure"}
UnhandledEvents == {"IncomingConnection", "OutgoingConnectionError"}

\* SphagnumRequest {command, payload, is_replication}; origin is history:
\* the client request this request stems from.
SphagnumRequest(command, is_replication, origin) ==
    [type |-> "Request", command |-> command, payload |-> "",
     is_replication |-> is_replication, origin |-> origin]

SphagnumResponse(payload) ==
    [type |-> "Response", command |-> NoCommand, payload |-> payload,
     is_replication |-> FALSE, origin |-> 0]

Linked(a, b) == a # b /\ links[{a, b}] > 0

\* What one call of a node may change in its swarm: the wire, the event
\* queues, the request ids, and the log of send_request calls it made.
Net == [wire |-> wire, events |-> swarm_events, ids |-> next_request_id, sent |-> <<>>]

\* request_response::Behaviour::send_request: the request travels on an
\* established connection; without one the swarm dials, which fails here
\* (no address is known) and comes back as an OutboundFailure event.
swarm_send_request(net, from, to, request) ==
    LET logged == [net EXCEPT !.ids[from] = @ + 1,
                              !.sent = Append(@, [to |-> to, request |-> request,
                                                  request_id |-> net.ids[from]])]
    IN  IF Linked(from, to)
        THEN [logged EXCEPT !.wire[<<from, to>>] = Append(@, request)]
        ELSE [logged EXCEPT !.events[from] = Append(@, SwarmEvent("OutboundFailure", to))]

\* The requests a step sent, as the history records them.
SentRecord(entry) ==
    [to |-> entry.to, command |-> entry.request.command,
     is_replication |-> entry.request.is_replication, request_id |-> entry.request_id]

SentLog(net) == [i \in 1..Len(net.sent) |-> SentRecord(net.sent[i])]

\* History bookkeeping: one more application of `origin`, and the record
\* of the first hop of `origin`.
Count(f, origin) == IF origin \in DOMAIN f THEN f[origin] ELSE 0
Counted(f, origin) ==
    [o \in DOMAIN f \cup {origin} |-> IF o = origin THEN Count(f, origin) + 1 ELSE f[o]]
Recorded(f, origin, record) ==
    [o \in DOMAIN f \cup {origin} |-> IF o = origin THEN record ELSE f[o]]

Step(kind, node) ==
    [kind |-> kind, node |-> node, peer |-> 0, command |-> NoCommand,
     is_replication |-> FALSE, origin |-> 0, payload |-> "", sent |-> <<>>,
     responded |-> "none", before |-> StringStore_new, ok |-> TRUE,
     connected |-> {}, replicas |-> {}, num_established |-> 0,
     result |-> CommandResult_Nil, line |-> <<>>, printed |-> FALSE]

-----------------------------------------------------------------------------
(* SphagnumNode (core/sphagnum.rs)                                         *)

NoBudget ==
    [dials |-> 0, closes |-> 0, clients |-> 0, locals |-> 0, adds |-> 0, fields |-> 0,
     emits |-> 0, switches |-> 0, listens |-> 0, rejecting |-> FALSE]

\* Multiaddr parsing: the listen addresses of the cluster parse to their
\* node, anything else is a parse error (0).
ListenAddr(n) == "/ip4/127.0.0.1/tcp/330" \o ToString(n)
Addresses == {ListenAddr(n) : n \in Nodes} \cup {"invalid_addr"}
ParseMultiaddr(remote_addr) ==
    IF \E m \in Nodes : ListenAddr(m) = remote_addr
    THEN CHOOSE m \in Nodes : ListenAddr(m) = remote_addr
    ELSE 0

\* DataStorage::new: the engine starts with the empty string store.
DataStorage_new == StringStore_new

\* Faulty variant: a new node prints ping results.
SphagnumNode_new_pinging ==
    [data_storage |-> DataStorage_new, passport |-> Passport_new, listeners |-> {},
     connected_peers |-> {}, is_pinging_output_enabled |-> TRUE, replica_set |-> {}]

\* SphagnumNode::new: the fields of a node just built; its swarm, just built
\* too, listens nowhere.
SphagnumNode_new ==
    [data_storage |-> DataStorage_new, passport |-> Passport_new, listeners |-> {},
     connected_peers |-> {}, is_pinging_output_enabled |-> FALSE, replica_set |-> {}]

NoRecords == [o \in {} |-> 0]

\* The tasks of main.rs and of the cluster test: the event loop of node n is
\* task n, the operator shell or test body is task Harness.  Every loop is
\* about to lock its node; the harness is between two calls.
Harness == 0
Tasks == Nodes \cup {Harness}
NoTasks == [t \in Tasks |-> IF t = Harness THEN [at |-> "idle", node |-> 0]
                                            ELSE [at |-> "lock", node |-> t]]

\* Three nodes built by SphagnumNode::new, of which those in `listening`
\* have been told to listen on their address, with `replicas` added to their
\* replica sets and the dials `pending` under way.
InitNodes(b, replicas, pending, listening) ==
    /\ data_storage = [n \in Nodes |-> SphagnumNode_new.data_storage]
    /\ passport = [n \in Nodes |-> SphagnumNode_new.passport]
    /\ connected_peers = [n \in Nodes |-> SphagnumNode_new.connected_peers]
    /\ replica_set = [n \in Nodes |-> SphagnumNode_new.replica_set \cup replicas[n]]
    /\ is_pinging_output_enabled =
           [n \in Nodes |-> SphagnumNode_new.is_pinging_output_enabled]
    /\ listeners = [n \in Nodes |-> SphagnumNode_new.listeners
                                        \cup (IF n \in listening THEN {ListenAddr(n)} ELSE {})]
    /\ swarm_events = [n \in Nodes |-> <<>>]
    /\ wire = [r \in Routes |-> <<>>]
    /\ links = [p \in Pairs |-> 0]
    /\ dialing = {<<r[1], r[2], FALSE>> : r \in pending}
    /\ pc = [n \in Nodes |-> "select"]
    /\ alive = [n \in Nodes |-> TRUE]
    /\ next_request_id = [n \in Nodes |-> 1]
    /\ budget = b
    /\ mutex = [n \in Nodes |-> {}]
    /\ task = NoTasks
    /\ applied = [n \in Nodes |-> NoRecords]
    /\ handled = NoRecords
    /\ log = [n \in Nodes |-> <<>>]
    /\ last = Step("Init", 0)

\* The three nodes of main.rs, each listening on its address.
InitWith(b, replicas, pending) == InitNodes(b, replicas, pending, Nodes)

Init ==
    InitWith([NoBudget EXCEPT !.dials = MaxDials, !.adds = MaxReplicaAdds,
                              !.clients = MaxClientRequests],
             [n \in Nodes |-> {}], {})

\* Faulty variant: adding a member that is there takes it out.
add_to_replica_set_toggling(n, peer_id) ==
    /\ budget.adds > 0
    /\ replica_set' = [replica_set EXCEPT ![n] = IF peer_id \in @ THEN @ \ {peer_id}
                                                 ELSE @ \cup {peer_id}]
    /\ budget' = [budget EXCEPT !.adds = @ - 1]
    /\ last' = [Step("AddToReplicaSet", n) EXCEPT !.peer = peer_id]
    /\ UNCHANGED <<data_storage, passport, connected_peers, is_pinging_output_enabled,
                   swarm_events, wire, links, dialing, pc, alive, next_request_id, applied, handled,
                   log>>

add_to_replica_set(n, peer_id) ==
    /\ budget.adds > 0
    /\ replica_set' = [replica_set EXCEPT ![n] = @ \cup {peer_id}]
    /\ budget' = [budget EXCEPT !.adds = @ - 1]
    /\ last' = [Step("AddToReplicaSet", n) EXCEPT !.peer = peer_id]
    /\ UNCHANGED <<data_storage, passport, connected_peers, is_pinging_output_enabled,
                   swarm_events, wire, links, dialing, pc, alive, next_request_id, applied, handled,
                   log>>

\* Faulty variant of the filter: the whole replica set.
peers_to_replicate_unfiltered(n) == replica_set[n]

peers_to_replicate(n) ==
    {peer_id \in replica_set[n] : peer_id # n /\ peer_id \in connected_peers[n]}

\* Faulty variant: the forwarded request is not marked as a replication.
replication_request_unmarked(command, origin) == SphagnumRequest(command, FALSE, origin)

replication_request(command, origin) == SphagnumRequest(command, TRUE, origin)

\* The loop of send_to_replicas over peers_to_replicate, in ascending order
\* of peer id (the order of HashSet iteration is unspecified; the requests
\* go to distinct peers).
RECURSIVE send_to_each(_, _, _, _)
send_to_each(net, n, peers, request) ==
    IF peers = {} THEN net
    ELSE LET peer_id == CHOOSE p \in peers : \A q \in peers : p <= q
         IN  send_to_each(swarm_send_request(net, n, peer_id, request),
                          n, peers \ {peer_id}, request)

send_to_replicas(net, n, command, origin) ==
    send_to_each(net, n, peers_to_replicate(n), replication_request(command, origin))

\* Faulty variant: the local command is also forwarded to the replicas.
handle_command_replicating(n, command) ==
    /\ budget.locals > 0
    /\ LET r == DataStorage_handle_command(data_storage[n], command)
           net == send_to_replicas(Net, n, command, 0)
       IN  /\ data_storage' = [data_storage EXCEPT ![n] = r.data]
           /\ wire' = net.wire
           /\ swarm_events' = net.events
           /\ next_request_id' = net.ids
           /\ last' = [Step("HandleCommand", n) EXCEPT
                          !.command = command, !.before = data_storage[n],
                          !.ok = r.ok, !.sent = SentLog(net)]
    /\ budget' = [budget EXCEPT !.locals = @ - 1]
    /\ log' = [log EXCEPT ![n] = Append(@, command)]
    /\ UNCHANGED <<passport, connected_peers, replica_set, is_pinging_output_enabled,
                   links, dialing, pc, alive, applied, handled>>

handle_command(n, command) ==
    /\ budget.locals > 0
    /\ LET r == DataStorage_handle_command(data_storage[n], command)
       IN  /\ data_storage' = [data_storage EXCEPT ![n] = r.data]
           /\ last' = [Step("HandleCommand", n) EXCEPT
                          !.command = command, !.before = data_storage[n],
                          !.ok = r.ok, !.result = r.val,
                          !.payload = IF r.val.kind = "Int" THEN ToString(r.val.n)
                                      ELSE r.val.s]
    /\ budget' = [budget EXCEPT !.locals = @ - 1]
    /\ log' = [log EXCEPT ![n] = Append(@, command)]
    /\ UNCHANGED <<passport, connected_peers, replica_set, is_pinging_output_enabled,
                   swarm_events, wire, links, dialing, pc, alive, next_request_id,
                   applied, handled>>

\* Faulty variant: the client request is marked as a replication.
client_request_marked(command, origin) == SphagnumRequest(command, TRUE, origin)

client_request(command, origin) == SphagnumRequest(command, FALSE, origin)

\* Faulty variant: the sender also applies the command to its own keyspace.
send_request_to_sphagnum_applying(n, peer_id, command) ==
    /\ budget.clients > 0
    /\ LET origin == budget.clients
           net == swarm_send_request(Net, n, peer_id, client_request(command, origin))
       IN  /\ wire' = net.wire
           /\ swarm_events' = net.events
           /\ next_request_id' = net.ids
           /\ handled' = Recorded(handled, origin,
                                   [to |-> peer_id, command |-> command,
                                    done |-> FALSE, replicas |-> {}, connected |-> {},
                                    refanned |-> FALSE])
           /\ last' = [Step("SendRequest", n) EXCEPT
                          !.peer = peer_id, !.command = command, !.origin = origin,
                          !.sent = SentLog(net)]
    /\ data_storage' =
           [data_storage EXCEPT ![n] = DataStorage_handle_command(@, command).data]
    /\ budget' = [budget EXCEPT !.clients = @ - 1]
    /\ UNCHANGED <<passport, connected_peers, replica_set,
                   is_pinging_output_enabled, links, dialing, pc, alive, applied, log>>

send_request_to_sphagnum(n, peer_id, command) ==
    /\ budget.clients > 0
    /\ LET origin == budget.clients
           net == swarm_send_request(Net, n, peer_id, client_request(command, origin))
       IN  /\ wire' = net.wire
           /\ swarm_events' = net.events
           /\ next_request_id' = net.ids
           /\ handled' = Recorded(handled, origin,
                                   [to |-> peer_id, command |-> command,
                                    done |-> FALSE, replicas |-> {}, connected |-> {},
                                    refanned |-> FALSE])
           /\ last' = [Step("SendRequest", n) EXCEPT
                          !.peer = peer_id, !.command = command, !.origin = origin,
                          !.sent = SentLog(net)]
    /\ budget' = [budget EXCEPT !.clients = @ - 1]
    /\ UNCHANGED <<data_storage, passport, connected_peers, replica_set,
                   is_pinging_output_enabled, links, dialing, pc, alive, applied, log>>

\* Faulty variant: the peer dialed counts as connected at once.
dial_connecting(n, remote_addr) ==
    /\ budget.dials > 0
    /\ LET remote == ParseMultiaddr(remote_addr)
       IN  /\ remote # n
           /\ \A accepted \in BOOLEAN : <<n, remote, accepted>> \notin dialing
           /\ dialing' = IF remote = 0 THEN dialing
                         ELSE dialing \cup {<<n, remote, FALSE>>}
           /\ connected_peers' = IF remote = 0 THEN connected_peers
                                 ELSE [connected_peers EXCEPT ![n] = @ \cup {remote}]
           /\ last' = [Step("Dial", n) EXCEPT !.peer = remote, !.ok = (remote # 0)]
    /\ budget' = [budget EXCEPT !.dials = @ - 1]
    /\ UNCHANGED <<data_storage, passport, replica_set,
                   is_pinging_output_enabled, swarm_events, wire, links, pc, alive,
                   next_request_id, applied, handled, log>>

dial(n, remote_addr) ==
    /\ budget.dials > 0
    /\ LET remote == ParseMultiaddr(remote_addr)
       IN  /\ remote # n
           /\ \A accepted \in BOOLEAN : <<n, remote, accepted>> \notin dialing
           /\ dialing' = IF remote = 0 THEN dialing
                         ELSE dialing \cup {<<n, remote, FALSE>>}
           /\ last' = [Step("Dial", n) EXCEPT !.peer = remote, !.ok = (remote # 0)]
    /\ budget' = [budget EXCEPT !.dials = @ - 1]
    /\ UNCHANGED <<data_storage, passport, connected_peers, replica_set,
                   is_pinging_output_enabled, swarm_events, wire, links, pc, alive,
                   next_request_id, applied, handled, log>>

\* listen_on(listen_addr): the swarm starts a listener, and reports its
\* address in an event.
listen_on(n, listen_addr) ==
    /\ budget.listens > 0
    /\ listeners' = [listeners EXCEPT ![n] = @ \cup {listen_addr}]
    /\ swarm_events' = [swarm_events EXCEPT ![n] = Append(@, SwarmEvent("NewListenAddr", 0))]
    /\ budget' = [budget EXCEPT !.listens = @ - 1]
    /\ last' = Step("ListenOn", n)
    /\ UNCHANGED <<data_storage, passport, connected_peers, replica_set,
                   is_pinging_output_enabled, wire, links, dialing, pc, alive,
                   next_request_id, applied, handled, log>>

-----------------------------------------------------------------------------
(* handle_event: one case per kind of swarm event                          *)

Ready(n) == alive[n] /\ pc[n] = "select" /\ swarm_events[n] # <<>>

NextEvent(n) == Head(swarm_events[n])

EventStep(kind, n) ==
    [Step(kind, n) EXCEPT
        !.peer = NextEvent(n).peer, !.command = NextEvent(n).command,
        !.is_replication = NextEvent(n).is_replication, !.origin = NextEvent(n).origin,
        !.before = data_storage[n], !.connected = connected_peers[n],
        !.replicas = replica_set[n], !.num_established = NextEvent(n).num_established]

handle_event_ConnectionEstablished(n) ==
    /\ Ready(n)
    /\ NextEvent(n).type = "ConnectionEstablished"
    /\ connected_peers' = [connected_peers EXCEPT ![n] = @ \cup {NextEvent(n).peer}]
    /\ swarm_events' = [swarm_events EXCEPT ![n] = Tail(@)]
    /\ last' = EventStep("ConnectionEstablished", n)
    /\ UNCHANGED <<data_storage, passport, replica_set, is_pinging_output_enabled, wire,
                   links, dialing, pc, alive, next_request_id, budget, applied, handled, log>>

handle_event_ConnectionClosed(n) ==
    /\ Ready(n)
    /\ NextEvent(n).type = "ConnectionClosed"
    /\ connected_peers' = [connected_peers EXCEPT ![n] = @ \ {NextEvent(n).peer}]
    /\ swarm_events' = [swarm_events EXCEPT ![n] = Tail(@)]
    /\ last' = EventStep("ConnectionClosed", n)
    /\ UNCHANGED <<data_storage, passport, replica_set, is_pinging_output_enabled, wire,
                   links, dialing, pc, alive, next_request_id, budget, applied, handled, log>>

\* Faulty variant: a failed outbound request is sent again.
handle_event_log_retrying(n) ==
    /\ Ready(n)
    /\ NextEvent(n).type \in LogOnlyEvents \cup {"Response", "OutboundFailure"}
    /\ LET taken == [Net EXCEPT !.events[n] = Tail(@)]
           net == IF NextEvent(n).type = "OutboundFailure"
                  THEN swarm_send_request(taken, n, NextEvent(n).peer,
                                          SphagnumRequest(NoCommand, TRUE, 0))
                  ELSE taken
       IN  /\ swarm_events' = net.events
           /\ wire' = net.wire
           /\ next_request_id' = net.ids
           /\ last' = [EventStep("Log", n) EXCEPT
                          !.payload = NextEvent(n).type, !.sent = SentLog(net)]
    /\ UNCHANGED <<data_storage, passport, connected_peers, replica_set,
                   is_pinging_output_enabled, links, dialing, pc, alive,
                   budget, applied, handled, log>>

\* Faulty variant: pings are printed whatever is_pinging_output_enabled says.
handle_event_log_verbose(n) ==
    /\ Ready(n)
    /\ NextEvent(n).type \in LogOnlyEvents \cup {"Response", "OutboundFailure"}
    /\ swarm_events' = [swarm_events EXCEPT ![n] = Tail(@)]
    /\ last' = [EventStep("Log", n) EXCEPT !.payload = NextEvent(n).type, !.printed = TRUE]
    /\ UNCHANGED <<data_storage, passport, connected_peers, replica_set,
                   is_pinging_output_enabled, wire, links, dialing, pc, alive,
                   next_request_id, budget, applied, handled, log>>

\* Listener, address and dialing events, pings, inbound responses, failures
\* and ResponseSent: printed, nothing else.
handle_event_log(n) ==
    /\ Ready(n)
    /\ NextEvent(n).type \in LogOnlyEvents \cup {"Response", "OutboundFailure"}
    /\ swarm_events' = [swarm_events EXCEPT ![n] = Tail(@)]
    \* the ping case prints only if is_pinging_output_enabled
    /\ last' = [EventStep("Log", n) EXCEPT
                   !.payload = NextEvent(n).type,
                   !.printed = (NextEvent(n).type = "Ping" => is_pinging_output_enabled[n])]
    /\ UNCHANGED <<data_storage, passport, connected_peers, replica_set,
                   is_pinging_output_enabled, wire, links, dialing, pc, alive,
                   next_request_id, budget, applied, handled, log>>

\* The match on request.command: the store afterwards, the payload of the
\* response, and whether send_to_replicas is called.
RenderError(prefix, val) == prefix \o DebugError(val)

\* Faulty variant of the guard: replication requests fan out again.
may_replicate_again(is_replication) == TRUE

\* The guard `!is_replication` in front of each call of send_to_replicas.
may_replicate(is_replication) == ~is_replication

\* Faulty variant: an absent key is answered with an empty payload.
request_outcome_empty_nil(data, request) ==
    LET r == DataStorage_handle_command(data, request.command)
        op == request.command.op
        unexpected == [data |-> r.data, payload |-> "Unexpected response", replicate |-> FALSE]
        failed(prefix) ==
            [data |-> r.data, payload |-> RenderError(prefix, r.val), replicate |-> FALSE]
    IN  CASE op = "Set" ->
               IF ~r.ok THEN failed("Error setting value: ")
               ELSE IF r.val.kind = "String"
                    THEN [data |-> r.data, payload |-> r.val.s,
                          replicate |-> r.val.s = "OK" /\ may_replicate(request.is_replication)]
                    ELSE unexpected
          [] op = "Get" ->
               IF ~r.ok THEN failed("Error getting value: ")
               ELSE IF r.val.kind = "String"
                    THEN [data |-> r.data, payload |-> r.val.s, replicate |-> FALSE]
                    ELSE IF r.val.kind = "Nil"
                         THEN [data |-> r.data, payload |-> "", replicate |-> FALSE]
                         ELSE unexpected
          [] op = "Append" ->
               IF ~r.ok THEN failed("Error appending value: ")
               ELSE IF r.val.kind = "Int"
                    THEN [data |-> r.data, payload |-> ToString(r.val.n),
                          replicate |-> may_replicate(request.is_replication)]
                    ELSE unexpected
          [] op = "Exists" ->
               IF ~r.ok THEN failed("Error checking existence: ")
               ELSE IF r.val.kind = "Int"
                    THEN [data |-> r.data, payload |-> ToString(r.val.n),
                          replicate |-> may_replicate(request.is_replication)]
                    ELSE unexpected
          [] op = "Delete" ->
               IF ~r.ok THEN failed("Error deleting keys: ")
               ELSE IF r.val.kind = "Int"
                    THEN [data |-> r.data, payload |-> ToString(r.val.n),
                          replicate |-> may_replicate(request.is_replication)]
                    ELSE unexpected

request_outcome(data, request) ==
    LET r == DataStorage_handle_command(data, request.command)
        op == request.command.op
        unexpected == [data |-> r.data, payload |-> "Unexpected response", replicate |-> FALSE]
        failed(prefix) ==
            [data |-> r.data, payload |-> RenderError(prefix, r.val), replicate |-> FALSE]
    IN  CASE op = "Set" ->
               IF ~r.ok THEN failed("Error setting value: ")
               ELSE IF r.val.kind = "String"
                    THEN [data |-> r.data, payload |-> r.val.s,
                          replicate |-> r.val.s = "OK" /\ may_replicate(request.is_replication)]
                    ELSE unexpected
          [] op = "Get" ->
               IF ~r.ok THEN failed("Error getting value: ")
               ELSE IF r.val.kind = "String"
                    THEN [data |-> r.data, payload |-> r.val.s, replicate |-> FALSE]
                    ELSE IF r.val.kind = "Nil"
                         THEN [data |-> r.data, payload |-> "nil", replicate |-> FALSE]
                         ELSE unexpected
          [] op = "Append" ->
               IF ~r.ok THEN failed("Error appending value: ")
               ELSE IF r.val.kind = "Int"
                    THEN [data |-> r.data, payload |-> ToString(r.val.n),
                          replicate |-> may_replicate(request.is_replication)]
                    ELSE unexpected
          [] op = "Exists" ->
               IF ~r.ok THEN failed("Error checking existence: ")
               ELSE IF r.val.kind = "Int"
                    THEN [data |-> r.data, payload |-> ToString(r.val.n),
                          replicate |-> may_replicate(request.is_replication)]
                    ELSE unexpected
          [] op = "Delete" ->
               IF ~r.ok THEN failed("Error deleting keys: ")
               ELSE IF r.val.kind = "Int"
                    THEN [data |-> r.data, payload |-> ToString(r.val.n),
                          replicate |-> may_replicate(request.is_replication)]
                    ELSE unexpected

\* Faulty variant: the response overtakes what the node has already sent to
\* the requester.
swarm_send_response_first(net, n, event, response) ==
    IF event.channel_open /\ Linked(n, event.peer)
    THEN [ok |-> TRUE, net |-> [net EXCEPT !.wire[<<n, event.peer>>] = <<response>> \o @]]
    ELSE [ok |-> FALSE, net |-> net]

\* send_response(channel, response): the response travels back on the
\* connection the request came on; with that connection gone the call
\* returns Err.
swarm_send_response(net, n, event, response) ==
    IF event.channel_open /\ Linked(n, event.peer)
    THEN [ok |-> TRUE, net |-> [net EXCEPT !.wire[<<n, event.peer>>] = Append(@, response)]]
    ELSE [ok |-> FALSE, net |-> net]

handle_event_Request(n) ==
    /\ Ready(n)
    /\ NextEvent(n).type = "Request"
    /\ LET request == NextEvent(n)
           engine == DataStorage_handle_command(data_storage[n], request.command)
           out == request_outcome(data_storage[n], request)
           taken == [Net EXCEPT !.events[n] = Tail(@)]
           fanned == IF out.replicate
                     THEN send_to_replicas(taken, n, request.command, request.origin)
                     ELSE taken
           answer == swarm_send_response(fanned, n, request, SphagnumResponse(out.payload))
       IN  /\ data_storage' = [data_storage EXCEPT ![n] = out.data]
           /\ wire' = answer.net.wire
           /\ swarm_events' = answer.net.events
           /\ next_request_id' = answer.net.ids
           \* .unwrap() on the result of send_response panics the loop task
           /\ alive' = [alive EXCEPT ![n] = answer.ok]
           /\ applied' = IF request.origin = 0 THEN applied
                         ELSE [applied EXCEPT ![n] = Counted(@, request.origin)]
           /\ handled' =
                  IF request.origin \notin DOMAIN handled THEN handled
                  ELSE IF ~request.is_replication
                       THEN [handled EXCEPT ![request.origin].done = TRUE,
                                            ![request.origin].replicas = replica_set[n],
                                            ![request.origin].connected =
                                                connected_peers[n]]
                       ELSE [handled EXCEPT ![request.origin].refanned =
                                                @ \/ Len(fanned.sent) > 0]
           /\ last' = [EventStep("Request", n) EXCEPT
                          !.payload = out.payload, !.sent = SentLog(answer.net),
                          !.ok = engine.ok, !.result = engine.val,
                          !.responded = IF answer.ok THEN "sent" ELSE "failed"]
    /\ UNCHANGED <<passport, connected_peers, replica_set, is_pinging_output_enabled,
                   links, dialing, pc, budget, log>>

\* The default arm: the event is dropped, and the arm's println! argument
\* awaits the swarm's next event.
handle_event_default(n) ==
    /\ Ready(n)
    /\ NextEvent(n).type \in UnhandledEvents
    /\ swarm_events' = [swarm_events EXCEPT ![n] = Tail(@)]
    /\ pc' = [pc EXCEPT ![n] = "default_await"]
    /\ last' = [EventStep("Unhandled", n) EXCEPT !.payload = NextEvent(n).type]
    /\ UNCHANGED <<data_storage, passport, connected_peers, replica_set,
                   is_pinging_output_enabled, wire, links, dialing, alive,
                   next_request_id, budget, applied, handled, log>>

\* ... and that next event, of whatever kind, is printed and gone.
handle_event_default_next(n) ==
    /\ alive[n]
    /\ pc[n] = "default_await"
    /\ swarm_events[n] # <<>>
    /\ swarm_events' = [swarm_events EXCEPT ![n] = Tail(@)]
    /\ pc' = [pc EXCEPT ![n] = "select"]
    /\ last' = [EventStep("Discarded", n) EXCEPT !.payload = NextEvent(n).type]
    /\ UNCHANGED <<data_storage, passport, connected_peers, replica_set,
                   is_pinging_output_enabled, wire, links, dialing, alive,
                   next_request_id, budget, applied, handled, log>>

handle_event(n) ==
    \/ handle_event_ConnectionEstablished(n)
    \/ handle_event_ConnectionClosed(n)
    \/ handle_event_log(n)
    \/ handle_event_Request(n)
    \/ handle_event_default(n)
    \/ handle_event_default_next(n)

-----------------------------------------------------------------------------
(* The transport between the swarms                                        *)

ConnectionEvent(type, peer, num_established) ==
    [SwarmEvent(type, peer) EXCEPT !.num_established = num_established]

\* A dial reaches its listener: the listener sees an incoming connection,
\* which is not yet established.
swarm_accept(a, b) ==
    /\ <<a, b, FALSE>> \in dialing
    /\ ListenAddr(b) \in listeners[b]
    /\ dialing' = (dialing \ {<<a, b, FALSE>>}) \cup {<<a, b, TRUE>>}
    /\ swarm_events' =
           [swarm_events EXCEPT ![b] = Append(@, SwarmEvent("IncomingConnection", a))]
    /\ last' = Step("Swarm", 0)
    /\ UNCHANGED <<data_storage, passport, connected_peers, replica_set,
                   is_pinging_output_enabled, wire, links, pc, alive, next_request_id,
                   budget, applied, handled, log>>

\* An accepted dial completes: one more connection, which both ends see
\* established.
swarm_connect(a, b) ==
    /\ <<a, b, TRUE>> \in dialing
    /\ dialing' = dialing \ {<<a, b, TRUE>>}
    /\ links' = [links EXCEPT ![{a, b}] = @ + 1]
    /\ LET num == links[{a, b}] + 1
       IN  swarm_events' =
               [swarm_events EXCEPT
                   ![a] = Append(@, ConnectionEvent("ConnectionEstablished", b, num)),
                   ![b] = Append(@, ConnectionEvent("ConnectionEstablished", a, num))]
    /\ last' = Step("Swarm", 0)
    /\ UNCHANGED <<data_storage, passport, connected_peers, replica_set,
                   is_pinging_output_enabled, wire, pc, alive, next_request_id, budget,
                   applied, handled, log>>

\* A dial fails: the dialer gets an OutgoingConnectionError.
swarm_dial_fails(a, b) ==
    /\ <<a, b, FALSE>> \in dialing
    /\ dialing' = dialing \ {<<a, b, FALSE>>}
    /\ swarm_events' =
           [swarm_events EXCEPT ![a] = Append(@, SwarmEvent("OutgoingConnectionError", b))]
    /\ last' = Step("Swarm", 0)
    /\ UNCHANGED <<data_storage, passport, connected_peers, replica_set,
                   is_pinging_output_enabled, wire, links, pc, alive, next_request_id,
                   budget, applied, handled, log>>

\* The reply channels of the requests of `peer` still queued die with the
\* last connection to it.
CloseChannels(events, peer) ==
    [i \in 1..Len(events) |->
        IF events[i].type = "Request" /\ events[i].peer = peer
        THEN [events[i] EXCEPT !.channel_open = FALSE]
        ELSE events[i]]

\* One OutboundFailure per request lost in flight to `to`.
IsRequest(m) == m.type = "Request"
LostRequests(messages, to) ==
    [i \in 1..Len(SelectSeq(messages, IsRequest)) |-> SwarmEvent("OutboundFailure", to)]

\* One connection between a and b closes; both ends see ConnectionClosed
\* with the number of connections that remain.  With the last connection
\* gone, what was in flight between the two is lost.
swarm_close(a, b) ==
    /\ budget.closes > 0
    /\ a < b
    /\ links[{a, b}] > 0
    /\ LET num == links[{a, b}] - 1
           gone == num = 0
           closed(n, peer) ==
               LET kept == IF gone THEN CloseChannels(swarm_events[n], peer)
                                   ELSE swarm_events[n]
                   lost == IF gone THEN LostRequests(wire[<<n, peer>>], peer) ELSE <<>>
               IN  Append(kept, ConnectionEvent("ConnectionClosed", peer, num)) \o lost
       IN  /\ links' = [links EXCEPT ![{a, b}] = num]
           /\ swarm_events' = [swarm_events EXCEPT ![a] = closed(a, b), ![b] = closed(b, a)]
           /\ wire' = IF gone THEN [wire EXCEPT ![<<a, b>>] = <<>>, ![<<b, a>>] = <<>>]
                              ELSE wire
    /\ budget' = [budget EXCEPT !.closes = @ - 1]
    /\ last' = Step("Swarm", 0)
    /\ UNCHANGED <<data_storage, passport, connected_peers, replica_set,
                   is_pinging_output_enabled, dialing, pc, alive, next_request_id, applied, handled,
                   log>>

\* The oldest message in flight from a to b arrives: b's swarm has a
\* Message::Request or Message::Response event ready.
swarm_deliver(a, b) ==
    /\ <<a, b>> \in Routes
    /\ wire[<<a, b>>] # <<>>
    /\ LET m == Head(wire[<<a, b>>])
       IN  swarm_events' =
               [swarm_events EXCEPT ![b] =
                   Append(@, [SwarmEvent(m.type, a) EXCEPT
                                 !.command = m.command, !.payload = m.payload,
                                 !.is_replication = m.is_replication,
                                 !.origin = m.origin])]
    /\ wire' = [wire EXCEPT ![<<a, b>>] = Tail(@)]
    /\ last' = Step("Swarm", 0)
    /\ UNCHANGED <<data_storage, passport, connected_peers, replica_set,
                   is_pinging_output_enabled, links, dialing, pc, alive, next_request_id,
                   budget, applied, handled, log>>

-----------------------------------------------------------------------------

(* Specifications.  Each starts from nodes just built and set up, and lets *)
(* the harness and the transport act within its budget.                    *)

\* Spec: a node is dialed, replica sets are configured, a client request is
\* sent and served.  No connection closes.
Next ==
    \/ \E n \in Nodes, peer_id \in Nodes : add_to_replica_set(n, peer_id)
            /\ UNCHANGED <<locks, listeners>>
    \/ \E n \in Nodes, peer_id \in Nodes, command \in Commands :
            send_request_to_sphagnum(n, peer_id, command) /\ UNCHANGED <<locks, listeners>>
    \/ \E n \in Nodes, remote_addr \in Addresses : dial(n, remote_addr) /\ UNCHANGED <<locks, listeners>>
    \/ \E n \in Nodes : handle_event_ConnectionEstablished(n) /\ UNCHANGED <<locks, listeners>>
    \/ \E n \in Nodes : handle_event_log(n) /\ UNCHANGED <<locks, listeners>>
    \/ \E n \in Nodes : handle_event_Request(n) /\ UNCHANGED <<locks, listeners>>
    \/ \E n \in Nodes : handle_event_default(n) /\ UNCHANGED <<locks, listeners>>
    \/ \E n \in Nodes : handle_event_default_next(n) /\ UNCHANGED <<locks, listeners>>
    \/ \E a \in Nodes, b \in Nodes : swarm_accept(a, b) /\ UNCHANGED <<locks, listeners>>
    \/ \E a \in Nodes, b \in Nodes : swarm_connect(a, b) /\ UNCHANGED <<locks, listeners>>
    \/ \E a \in Nodes, b \in Nodes : swarm_deliver(a, b) /\ UNCHANGED <<locks, listeners>>

Spec == Init /\ [][Next]_vars

\* SpecConn: connections are opened and closed; nothing is requested.
InitConn ==
    InitWith([NoBudget EXCEPT !.dials = ConnMaxDials, !.closes = ConnMaxCloses],
             [n \in Nodes |-> {}], {})

NextConn ==
    \/ \E n \in Nodes, remote_addr \in Addresses : dial(n, remote_addr) /\ UNCHANGED <<locks, listeners>>
    \/ \E n \in Nodes : handle_event_ConnectionEstablished(n) /\ UNCHANGED <<locks, listeners>>
    \/ \E n \in Nodes : handle_event_ConnectionClosed(n) /\ UNCHANGED <<locks, listeners>>
    \/ \E n \in Nodes : handle_event_default(n) /\ UNCHANGED <<locks, listeners>>
    \/ \E n \in Nodes : handle_event_default_next(n) /\ UNCHANGED <<locks, listeners>>
    \/ \E a \in Nodes, b \in Nodes : swarm_accept(a, b) /\ UNCHANGED <<locks, listeners>>
    \/ \E a \in Nodes, b \in Nodes : swarm_connect(a, b) /\ UNCHANGED <<locks, listeners>>
    \/ \E a \in Nodes, b \in Nodes : swarm_dial_fails(a, b) /\ UNCHANGED <<locks, listeners>>
    \/ \E a \in Nodes, b \in Nodes : swarm_close(a, b) /\ UNCHANGED <<locks, listeners>>

SpecConn == InitConn /\ [][NextConn]_vars

\* SpecLocal: handle_command is called on nodes whose replicas may be
\* connected.
InitLocal ==
    InitWith([NoBudget EXCEPT !.dials = LocalMaxDials, !.adds = LocalMaxReplicaAdds,
                              !.locals = LocalMaxCommands],
             [n \in Nodes |-> {}], {})

NextLocal ==
    \/ \E n \in Nodes, peer_id \in Nodes : add_to_replica_set(n, peer_id)
            /\ UNCHANGED <<locks, listeners>>
    \/ \E n \in Nodes, command \in Commands : handle_command(n, command)
            /\ UNCHANGED <<locks, listeners>>
    \/ \E n \in Nodes, remote_addr \in Addresses : dial(n, remote_addr) /\ UNCHANGED <<locks, listeners>>
    \/ \E n \in Nodes : handle_event_ConnectionEstablished(n) /\ UNCHANGED <<locks, listeners>>
    \/ \E n \in Nodes : handle_event_default(n) /\ UNCHANGED <<locks, listeners>>
    \/ \E n \in Nodes : handle_event_default_next(n) /\ UNCHANGED <<locks, listeners>>
    \/ \E a \in Nodes, b \in Nodes : swarm_accept(a, b) /\ UNCHANGED <<locks, listeners>>
    \/ \E a \in Nodes, b \in Nodes : swarm_connect(a, b) /\ UNCHANGED <<locks, listeners>>
    \/ \E a \in Nodes, b \in Nodes : swarm_dial_fails(a, b) /\ UNCHANGED <<locks, listeners>>

SpecLocal == InitLocal /\ [][NextLocal]_vars

Quiescent ==
    /\ dialing = {}
    /\ \A n \in Nodes : swarm_events[n] = <<>>
    /\ \A r \in Routes : wire[r] = <<>>

\* The test sleeps until the cluster has settled, then has a node send a
\* request to another.
cluster_send_request(n, peer_id, command) ==
    /\ Quiescent
    /\ send_request_to_sphagnum(n, peer_id, command)

\* SpecCluster: the cluster of main.rs and tests/cluster_operations.rs.
\* Every node has the other two in its replica set; the dials of sp1 and of
\* sp2 are under way (those of sp3 are left out to keep the cluster small:
\* every pair of nodes still gets a connection), the event loops run, and a
\* node sends a client request to another.
ClusterDials == {<<1, 2>>, <<1, 3>>, <<2, 1>>, <<2, 3>>}

InitCluster ==
    InitWith([NoBudget EXCEPT !.clients = ClusterMaxRequests],
             [n \in Nodes |-> Nodes \ {n}], ClusterDials)

NextCluster ==
    \/ \E n \in Nodes : \E peer_id \in Nodes \ {n}, command \in Commands :
            cluster_send_request(n, peer_id, command) /\ UNCHANGED <<locks, listeners>>
    \/ \E n \in Nodes : handle_event_ConnectionEstablished(n) /\ UNCHANGED <<locks, listeners>>
    \/ \E n \in Nodes : handle_event_log(n) /\ UNCHANGED <<locks, listeners>>
    \/ \E n \in Nodes : handle_event_Request(n) /\ UNCHANGED <<locks, listeners>>
    \/ \E n \in Nodes : handle_event_default(n) /\ UNCHANGED <<locks, listeners>>
    \/ \E n \in Nodes : handle_event_default_next(n) /\ UNCHANGED <<locks, listeners>>
    \/ \E a \in Nodes, b \in Nodes : swarm_accept(a, b) /\ UNCHANGED <<locks, listeners>>
    \/ \E a \in Nodes, b \in Nodes : swarm_connect(a, b) /\ UNCHANGED <<locks, listeners>>
    \/ \E a \in Nodes, b \in Nodes : swarm_deliver(a, b) /\ UNCHANGED <<locks, listeners>>

SpecCluster == InitCluster /\ [][NextCluster]_vars

\* SpecJoin: nodes configured as in main.rs (every node has the other two
\* in its replica set) that dial each other while a client request is
\* already under way.
JoinMaxDials == 2
JoinMaxRequests == 1

InitJoin ==
    InitWith([NoBudget EXCEPT !.dials = JoinMaxDials, !.clients = JoinMaxRequests],
             [n \in Nodes |-> Nodes \ {n}], {})

NextJoin ==
    \/ \E n \in Nodes : \E peer_id \in Nodes \ {n}, command \in Commands :
            send_request_to_sphagnum(n, peer_id, command) /\ UNCHANGED <<locks, listeners>>
    \/ \E n \in Nodes, remote_addr \in Addresses : dial(n, remote_addr) /\ UNCHANGED <<locks, listeners>>
    \/ \E n \in Nodes : handle_event_ConnectionEstablished(n) /\ UNCHANGED <<locks, listeners>>
    \/ \E n \in Nodes : handle_event_log(n) /\ UNCHANGED <<locks, listeners>>
    \/ \E n \in Nodes : handle_event_Request(n) /\ UNCHANGED <<locks, listeners>>
    \/ \E n \in Nodes : handle_event_default(n) /\ UNCHANGED <<locks, listeners>>
    \/ \E n \in Nodes : handle_event_default_next(n) /\ UNCHANGED <<locks, listeners>>
    \/ \E a \in Nodes, b \in Nodes : swarm_accept(a, b) /\ UNCHANGED <<locks, listeners>>
    \/ \E a \in Nodes, b \in Nodes : swarm_connect(a, b) /\ UNCHANGED <<locks, listeners>>
    \/ \E a \in Nodes, b \in Nodes : swarm_deliver(a, b) /\ UNCHANGED <<locks, listeners>>

SpecJoin == InitJoin /\ [][NextJoin]_vars

\* The calls on the passport of a node.
get_field(n) ==
    /\ budget.fields > 0
    /\ LET r == Passport_get_field(passport[n])
       IN  /\ last' = [Step("GetField", n) EXCEPT !.ok = r.ok, !.result = r.val]
           /\ log' = [log EXCEPT ![n] = Append(@, [op |-> "get_field", arg |-> "",
                                                    ok |-> r.ok])]
    /\ budget' = [budget EXCEPT !.fields = @ - 1]
    /\ UNCHANGED <<data_storage, passport, connected_peers, replica_set,
                   is_pinging_output_enabled, swarm_events, wire, links, dialing, pc,
                   alive, next_request_id, applied, handled>>

set_field(n, new_field) ==
    /\ budget.fields > 0
    /\ LET r == Passport_set_field(passport[n], new_field)
       IN  /\ passport' = [passport EXCEPT ![n] = r.field]
           /\ last' = [Step("SetField", n) EXCEPT
                          !.payload = new_field, !.ok = r.ok, !.result = r.val]
           /\ log' = [log EXCEPT ![n] = Append(@, [op |-> "set_field", arg |-> new_field,
                                                    ok |-> r.ok])]
    /\ budget' = [budget EXCEPT !.fields = @ - 1]
    /\ UNCHANGED <<data_storage, connected_peers, replica_set,
                   is_pinging_output_enabled, swarm_events, wire, links, dialing, pc,
                   alive, next_request_id, applied, handled>>

\* SpecPassport: the passport of node 1 is read and set, with empty and
\* non-empty arguments.
PassportMaxCalls == 4
PassportFields == {"", "moss", "fern"}

InitPassport ==
    InitWith([NoBudget EXCEPT !.fields = PassportMaxCalls], [n \in Nodes |-> {}], {})

NextPassport ==
    \/ get_field(1) /\ UNCHANGED <<locks, listeners>>
    \/ \E new_field \in PassportFields : set_field(1, new_field) /\ UNCHANGED <<locks, listeners>>

SpecPassport == InitPassport /\ [][NextPassport]_vars

\* SpecReject: the cluster of SpecCluster with engines that cannot apply the
\* commands they are given.
RejectMaxRequests == 1

InitReject ==
    InitWith([NoBudget EXCEPT !.clients = RejectMaxRequests, !.rejecting = TRUE],
             [n \in Nodes |-> Nodes \ {n}], ClusterDials)

SpecReject == InitReject /\ [][NextCluster]_vars

\* SpecLoss: nodes configured as in main.rs, with the dials of sp1 to sp2 and
\* of sp2 to sp3 under way; a client request is sent while a connection may
\* close under it.
LossMaxRequests == 1
LossMaxCloses == 1
LossDials == {<<1, 2>>, <<2, 3>>}

InitLoss ==
    InitWith([NoBudget EXCEPT !.clients = LossMaxRequests, !.closes = LossMaxCloses],
             [n \in Nodes |-> Nodes \ {n}], LossDials)

NextLoss ==
    \/ \E n \in Nodes : \E peer_id \in connected_peers[n], command \in Commands :
            send_request_to_sphagnum(n, peer_id, command) /\ UNCHANGED <<locks, listeners>>
    \/ \E n \in Nodes : handle_event_ConnectionEstablished(n) /\ UNCHANGED <<locks, listeners>>
    \/ \E n \in Nodes : handle_event_ConnectionClosed(n) /\ UNCHANGED <<locks, listeners>>
    \/ \E n \in Nodes : handle_event_log(n) /\ UNCHANGED <<locks, listeners>>
    \/ \E n \in Nodes : handle_event_Request(n) /\ UNCHANGED <<locks, listeners>>
    \/ \E n \in Nodes : handle_event_default(n) /\ UNCHANGED <<locks, listeners>>
    \/ \E n \in Nodes : handle_event_default_next(n) /\ UNCHANGED <<locks, listeners>>
    \/ \E a \in Nodes, b \in Nodes : swarm_accept(a, b) /\ UNCHANGED <<locks, listeners>>
    \/ \E a \in Nodes, b \in Nodes : swarm_connect(a, b) /\ UNCHANGED <<locks, listeners>>
    \/ \E a \in Nodes, b \in Nodes : swarm_close(a, b) /\ UNCHANGED <<locks, listeners>>
    \/ \E a \in Nodes, b \in Nodes : swarm_deliver(a, b) /\ UNCHANGED <<locks, listeners>>

SpecLoss == InitLoss /\ [][NextLoss]_vars

\* The node mutexes (Arc<Mutex<SphagnumNode>>).  In the specifications above
\* a call takes the mutex of its node, runs and drops the guard within one
\* step; here taking the mutex is a step of its own.

\* Faulty variant: lock() returns whoever holds the mutex.
Mutex_free_unchecked(n) == TRUE

\* lock().await returns once nobody holds the guard.
Mutex_free(n) == mutex[n] = {}

\* tokio's Mutex is fair: a task that found the guard taken is queued, and a
\* queued task is served before one that arrives later.
Mutex_turn(n, t) ==
    /\ task[t].node = n
    /\ task[t].at \in {"lock", "queued"}
    /\ task[t].at = "lock" =>
           \A u \in Tasks \ {t} : ~ (task[u].node = n /\ task[u].at = "queued")

\* The tasks after t has taken the guard of n: a live task that was at the
\* same lock().await finds the guard taken and joins the queue.
Mutex_taken(n, t) ==
    [u \in Tasks |->
        IF u = t THEN [task[u] EXCEPT !.at = "held"]
        ELSE IF task[u].node = n /\ task[u].at = "lock" /\ (u \in Nodes => alive[u])
             THEN [task[u] EXCEPT !.at = "queued"]
             ELSE task[u]]

\* The event loop of n: let mut sphagnum = sp_arc_n.lock().await
loop_lock(n) ==
    /\ alive[n]
    /\ Mutex_turn(n, n)
    /\ Mutex_free(n)
    /\ mutex' = [mutex EXCEPT ![n] = @ \cup {n}]
    /\ task' = Mutex_taken(n, n)
    /\ last' = Step("Lock", n)
    /\ UNCHANGED <<listeners, data_storage, passport, connected_peers, replica_set,
                   is_pinging_output_enabled, swarm_events, wire, links, dialing, pc,
                   alive, next_request_id, budget, applied, handled, log>>

\* ... sphagnum.handle_event().await runs with the guard held, and the guard
\* is dropped when the iteration ends (or by the unwinding of a panic).
loop_holds(n) == task[n].at = "held" /\ n \in mutex[n]

loop_returns(n) ==
    IF pc'[n] = "select"
    THEN /\ mutex' = [mutex EXCEPT ![n] = @ \ {n}]
         /\ task' = [task EXCEPT ![n].at = "lock"]
    ELSE UNCHANGED locks

\* The harness (test body or operator shell) reaches node_arc.lock().await
\* for a call on node n ...
harness_calls(n) ==
    /\ task[Harness].at = "idle"
    /\ budget.clients + budget.locals > 0
    /\ task' = [task EXCEPT ![Harness] =
                   [at |-> IF Mutex_free(n) THEN "lock" ELSE "queued", node |-> n]]
    /\ last' = Step("Call", n)
    /\ UNCHANGED <<mutex, listeners, data_storage, passport, connected_peers, replica_set,
                   is_pinging_output_enabled, swarm_events, wire, links, dialing, pc,
                   alive, next_request_id, budget, applied, handled, log>>

\* ... gets the guard ...
harness_lock(n) ==
    /\ Mutex_turn(n, Harness)
    /\ Mutex_free(n)
    /\ mutex' = [mutex EXCEPT ![n] = @ \cup {Harness}]
    /\ task' = Mutex_taken(n, Harness)
    /\ last' = Step("Lock", n)
    /\ UNCHANGED <<listeners, data_storage, passport, connected_peers, replica_set,
                   is_pinging_output_enabled, swarm_events, wire, links, dialing, pc,
                   alive, next_request_id, budget, applied, handled, log>>

harness_holds(n) == task[Harness] = [at |-> "held", node |-> n] /\ Harness \in mutex[n]

\* Faulty variant: the guard outlives the block of the call.
harness_keeps(n) ==
    /\ mutex' = mutex
    /\ task' = [task EXCEPT ![Harness] = [at |-> "idle", node |-> 0]]

\* ... and drops it at the end of the block that made the call.
harness_returns(n) ==
    /\ mutex' = [mutex EXCEPT ![n] = @ \ {Harness}]
    /\ task' = [task EXCEPT ![Harness] = [at |-> "idle", node |-> 0]]

\* SpecLock: the three event loops and the harness contend for the node
\* mutexes while sp1 dials sp2, a request is sent and a local command runs.
LockMaxRequests == 1
LockMaxCommands == 1
LockDials == {<<1, 2>>}

InitLock ==
    InitWith([NoBudget EXCEPT !.clients = LockMaxRequests, !.locals = LockMaxCommands],
             [n \in Nodes |-> Nodes \ {n}], LockDials)

NextLock ==
    \/ \E n \in Nodes : loop_lock(n)
    \/ \E n \in Nodes :
            loop_holds(n) /\ handle_event_ConnectionEstablished(n) /\ loop_returns(n)
            /\ UNCHANGED listeners
    \/ \E n \in Nodes : loop_holds(n) /\ handle_event_log(n) /\ loop_returns(n)
            /\ UNCHANGED listeners
    \/ \E n \in Nodes : loop_holds(n) /\ handle_event_Request(n) /\ loop_returns(n)
            /\ UNCHANGED listeners
    \/ \E n \in Nodes : loop_holds(n) /\ handle_event_default(n) /\ loop_returns(n)
            /\ UNCHANGED listeners
    \/ \E n \in Nodes : loop_holds(n) /\ handle_event_default_next(n) /\ loop_returns(n)
            /\ UNCHANGED listeners
    \/ \E n \in Nodes : harness_calls(n)
    \/ \E n \in Nodes : harness_lock(n)
    \/ \E n \in Nodes, command \in Commands :
            harness_holds(n) /\ handle_command(n, command) /\ harness_returns(n)
            /\ UNCHANGED listeners
    \/ \E n \in Nodes : \E peer_id \in Nodes \ {n}, command \in Commands :
            /\ harness_holds(n)
            /\ send_request_to_sphagnum(n, peer_id, command)
            /\ harness_returns(n)
            /\ UNCHANGED listeners
    \/ \E a \in Nodes, b \in Nodes : swarm_accept(a, b) /\ UNCHANGED <<locks, listeners>>
    \/ \E a \in Nodes, b \in Nodes : swarm_connect(a, b) /\ UNCHANGED <<locks, listeners>>
    \/ \E a \in Nodes, b \in Nodes : swarm_deliver(a, b) /\ UNCHANGED <<locks, listeners>>

SpecLock == InitLock /\ [][NextLock]_vars

\* SpecConfig: replica sets are configured while sp1's dial of sp2 completes,
\* the connection closes, a request is sent and a local command runs.
ConfigMaxReplicaAdds == 2
ConfigMaxCloses == 1
ConfigMaxRequests == 1
ConfigMaxCommands == 1
ConfigCommands == {StringCommand_Set("k", "v"), GenericCommand_Delete(<<"k">>)}

InitConfig ==
    InitWith([NoBudget EXCEPT !.adds = ConfigMaxReplicaAdds, !.closes = ConfigMaxCloses,
                              !.clients = ConfigMaxRequests,
                              !.locals = ConfigMaxCommands],
             [n \in Nodes |-> {}], LockDials)

NextConfig ==
    \/ \E n \in Nodes, peer_id \in Nodes : add_to_replica_set(n, peer_id) /\ UNCHANGED <<locks, listeners>>
    \/ \E n \in Nodes, command \in ConfigCommands :
            handle_command(n, command) /\ UNCHANGED <<locks, listeners>>
    \/ \E n \in Nodes : \E peer_id \in connected_peers[n], command \in ConfigCommands :
            send_request_to_sphagnum(n, peer_id, command) /\ UNCHANGED <<locks, listeners>>
    \/ \E n \in Nodes : handle_event_ConnectionEstablished(n) /\ UNCHANGED <<locks, listeners>>
    \/ \E n \in Nodes : handle_event_ConnectionClosed(n) /\ UNCHANGED <<locks, listeners>>
    \/ \E n \in Nodes : handle_event_log(n) /\ UNCHANGED <<locks, listeners>>
    \/ \E n \in Nodes : handle_event_Request(n) /\ UNCHANGED <<locks, listeners>>
    \/ \E n \in Nodes : handle_event_default(n) /\ UNCHANGED <<locks, listeners>>
    \/ \E n \in Nodes : handle_event_default_next(n) /\ UNCHANGED <<locks, listeners>>
    \/ \E a \in Nodes, b \in Nodes : swarm_accept(a, b) /\ UNCHANGED <<locks, listeners>>
    \/ \E a \in Nodes, b \in Nodes : swarm_connect(a, b) /\ UNCHANGED <<locks, listeners>>
    \/ \E a \in Nodes, b \in Nodes : swarm_close(a, b) /\ UNCHANGED <<locks, listeners>>
    \/ \E a \in Nodes, b \in Nodes : swarm_deliver(a, b) /\ UNCHANGED <<locks, listeners>>

SpecConfig == InitConfig /\ [][NextConfig]_vars

\* SpecOrder: sp1 is the single writer: it sends two mutating commands for
\* the key to sp2, one after the other and without waiting in between, while
\* the connections of sp2 (to sp1, which also dials back, and to sp3) come up.
OrderMaxRequests == 2
OrderDials == {<<1, 2>>, <<2, 1>>, <<2, 3>>}
OrderCommands ==
    {StringCommand_Set("k", "v"), StringCommand_Append("k", "v"),
     GenericCommand_Delete(<<"k">>)}

InitOrder ==
    InitWith([NoBudget EXCEPT !.clients = OrderMaxRequests],
             [n \in Nodes |-> Nodes \ {n}], OrderDials)

order_send_request(command) ==
    /\ 2 \in connected_peers[1]
    /\ send_request_to_sphagnum(1, 2, command)

NextOrder ==
    \/ \E command \in OrderCommands : order_send_request(command) /\ UNCHANGED <<locks, listeners>>
    \/ \E n \in Nodes : handle_event_ConnectionEstablished(n) /\ UNCHANGED <<locks, listeners>>
    \/ \E n \in Nodes : handle_event_log(n) /\ UNCHANGED <<locks, listeners>>
    \/ \E n \in Nodes : handle_event_Request(n) /\ UNCHANGED <<locks, listeners>>
    \/ \E n \in Nodes : handle_event_default(n) /\ UNCHANGED <<locks, listeners>>
    \/ \E n \in Nodes : handle_event_default_next(n) /\ UNCHANGED <<locks, listeners>>
    \/ \E a \in Nodes, b \in Nodes : swarm_accept(a, b) /\ UNCHANGED <<locks, listeners>>
    \/ \E a \in Nodes, b \in Nodes : swarm_connect(a, b) /\ UNCHANGED <<locks, listeners>>
    \/ \E a \in Nodes, b \in Nodes : swarm_deliver(a, b) /\ UNCHANGED <<locks, listeners>>

SpecOrder == InitOrder /\ [][NextOrder]_vars

\* The operator shell (the handle_input task of main.rs).  A line is the
\* sequence of its words; the first names a node, the second is the verb.
ShellNode(node_name) ==
    CASE node_name = "sp1" -> 1
      [] node_name = "sp2" -> 2
      [] node_name = "sp3" -> 3
      [] OTHER -> 0

\* str::to_lowercase, on the verbs the shell is given here.
to_lowercase(word) ==
    CASE word = "GET" -> "get"
      [] word = "Set" -> "set"
      [] OTHER -> word

\* The match on the verb: the command a line stands for, a switch of the
\* ping output, or nothing (a usage message, an unknown verb).
ShellNothing == [kind |-> "none", command |-> NoCommand]
ShellRequest(command) == [kind |-> "request", command |-> command]

shell_parse(words) ==
    LET verb == to_lowercase(Head(words))
        args == Tail(words)
    IN  CASE verb = "get" ->
               IF Len(args) >= 1 THEN ShellRequest(StringCommand_Get(args[1]))
               ELSE ShellNothing
          [] verb = "set" ->
               IF Len(args) >= 2 THEN ShellRequest(StringCommand_Set(args[1], args[2]))
               ELSE ShellNothing
          [] verb = "append" ->
               IF Len(args) >= 2 THEN ShellRequest(StringCommand_Append(args[1], args[2]))
               ELSE ShellNothing
          [] verb = "exists" ->
               IF args # <<>> THEN ShellRequest(GenericCommand_Exists(args))
               ELSE ShellNothing
          [] verb = "del" ->
               IF args # <<>> THEN ShellRequest(GenericCommand_Delete(args))
               ELSE ShellNothing
          [] verb = "enable_pinging_output" -> [kind |-> "enable", command |-> NoCommand]
          [] verb = "disable_pinging_output" -> [kind |-> "disable", command |-> NoCommand]
          [] OTHER -> ShellNothing

enable_pinging_output(enabled) == IF ~enabled THEN TRUE ELSE enabled
disable_pinging_output(enabled) == IF enabled THEN FALSE ELSE enabled

\* Faulty variant: the shell picks among all the other nodes.
shell_peers_any(n) == Nodes \ {n}

\* connected_peers.iter().next(): some member of the set, if there is one.
shell_peers(n) == connected_peers[n]

shell_line(line) ==
    /\ budget.clients > 0
    /\ LET n == IF line = <<>> THEN 0 ELSE ShellNode(line[1])
           parsed == IF n = 0 \/ Len(line) < 2 THEN ShellNothing
                     ELSE shell_parse(Tail(line))
           origin == budget.clients
           step == [Step("Shell", n) EXCEPT
                       !.line = line, !.command = parsed.command,
                       !.ok = (parsed.kind # "none"),
                       !.connected = IF n = 0 THEN {} ELSE connected_peers[n]]
       IN  CASE parsed.kind = "request" /\ shell_peers(n) # {} ->
                  \E peer_id \in shell_peers(n) :
                      LET net == swarm_send_request(
                                     Net, n, peer_id, client_request(parsed.command, origin))
                      IN  /\ wire' = net.wire
                          /\ swarm_events' = net.events
                          /\ next_request_id' = net.ids
                          /\ handled' = Recorded(handled, origin,
                                                  [to |-> peer_id, command |-> parsed.command,
                                                   done |-> FALSE, replicas |-> {},
                                                   connected |-> {}, refanned |-> FALSE])
                          /\ last' = [step EXCEPT !.peer = peer_id, !.origin = origin,
                                                  !.sent = SentLog(net)]
                          /\ UNCHANGED is_pinging_output_enabled
             [] parsed.kind \in {"enable", "disable"} ->
                  /\ is_pinging_output_enabled' =
                         [is_pinging_output_enabled EXCEPT ![n] =
                             IF parsed.kind = "enable" THEN enable_pinging_output(@)
                             ELSE disable_pinging_output(@)]
                  /\ last' = step
                  /\ UNCHANGED <<wire, swarm_events, next_request_id, handled>>
             [] OTHER ->
                  /\ last' = step
                  /\ UNCHANGED <<wire, swarm_events, next_request_id, handled,
                                 is_pinging_output_enabled>>
    /\ budget' = [budget EXCEPT !.clients = @ - 1]
    /\ UNCHANGED <<data_storage, passport, connected_peers, replica_set, links, dialing,
                   pc, alive, applied, log>>

\* SpecShell: the operator types two lines while sp1's dial of sp2 completes.
ShellMaxLines == 2
ShellNodeNames == {"sp1", "sp2", "sp4"}
ShellWords ==
    {<<"get", "k">>, <<"GET", "k">>, <<"get">>, <<"set", "k", "v">>, <<"set", "k">>,
     <<"append", "k", "w">>, <<"exists", "k", "k">>, <<"exists">>, <<"del", "k">>,
     <<"enable_pinging_output">>, <<"disable_pinging_output">>, <<"flush">>, <<>>}
ShellLines == {<<node_name>> \o words : node_name \in ShellNodeNames, words \in ShellWords}

InitShell ==
    InitWith([NoBudget EXCEPT !.clients = ShellMaxLines],
             [n \in Nodes |-> Nodes \ {n}], LockDials)

NextShell ==
    \/ \E line \in ShellLines : shell_line(line) /\ UNCHANGED <<locks, listeners>>
    \/ \E n \in Nodes : handle_event_ConnectionEstablished(n) /\ UNCHANGED <<locks, listeners>>
    \/ \E n \in Nodes : handle_event_log(n) /\ UNCHANGED <<locks, listeners>>
    \/ \E n \in Nodes : handle_event_Request(n) /\ UNCHANGED <<locks, listeners>>
    \/ \E n \in Nodes : handle_event_default(n) /\ UNCHANGED <<locks, listeners>>
    \/ \E n \in Nodes : handle_event_default_next(n) /\ UNCHANGED <<locks, listeners>>
    \/ \E a \in Nodes, b \in Nodes : swarm_accept(a, b) /\ UNCHANGED <<locks, listeners>>
    \/ \E a \in Nodes, b \in Nodes : swarm_connect(a, b) /\ UNCHANGED <<locks, listeners>>
    \/ \E a \in Nodes, b \in Nodes : swarm_deliver(a, b) /\ UNCHANGED <<locks, listeners>>

SpecShell == InitShell /\ [][NextShell]_vars

\* The swarm of n has an event of its own making ready: a ping result, a
\* listen or external address, the acknowledgment of a response sent, or the
\* failure of an inbound request.  Whom the event is about plays no part in
\* how it is handled.
swarm_emits(n, type) ==
    /\ budget.emits > 0
    /\ swarm_events' = [swarm_events EXCEPT ![n] = Append(@, SwarmEvent(type, 0))]
    /\ budget' = [budget EXCEPT !.emits = @ - 1]
    /\ last' = Step("Swarm", 0)
    /\ UNCHANGED <<data_storage, passport, connected_peers, replica_set,
                   is_pinging_output_enabled, wire, links, dialing, pc, alive,
                   next_request_id, applied, handled, log>>

\* The operator switches the ping output of n on or off.
switch_pinging_output(n, on) ==
    /\ budget.switches > 0
    /\ is_pinging_output_enabled' =
           [is_pinging_output_enabled EXCEPT ![n] =
               IF on THEN enable_pinging_output(@) ELSE disable_pinging_output(@)]
    /\ budget' = [budget EXCEPT !.switches = @ - 1]
    /\ last' = [Step("SwitchPinging", n) EXCEPT !.ok = on]
    /\ UNCHANGED <<data_storage, passport, connected_peers, replica_set, swarm_events,
                   wire, links, dialing, pc, alive, next_request_id, applied, handled, log>>

\* SpecFail: SpecLoss with a swarm that may also report the failure of an
\* inbound request.
FailMaxRequests == 1
FailMaxCloses == 1
FailMaxEmits == 1

InitFail ==
    InitWith([NoBudget EXCEPT !.clients = FailMaxRequests, !.closes = FailMaxCloses,
                              !.emits = FailMaxEmits],
             [n \in Nodes |-> Nodes \ {n}], LossDials)

NextFail ==
    \/ \E n \in Nodes : \E peer_id \in connected_peers[n], command \in Commands :
            send_request_to_sphagnum(n, peer_id, command) /\ UNCHANGED <<locks, listeners>>
    \/ \E n \in Nodes : handle_event_ConnectionEstablished(n) /\ UNCHANGED <<locks, listeners>>
    \/ \E n \in Nodes : handle_event_ConnectionClosed(n) /\ UNCHANGED <<locks, listeners>>
    \/ \E n \in Nodes : handle_event_log(n) /\ UNCHANGED <<locks, listeners>>
    \/ \E n \in Nodes : handle_event_Request(n) /\ UNCHANGED <<locks, listeners>>
    \/ \E n \in Nodes : handle_event_default(n) /\ UNCHANGED <<locks, listeners>>
    \/ \E n \in Nodes : handle_event_default_next(n) /\ UNCHANGED <<locks, listeners>>
    \/ \E n \in Nodes : swarm_emits(n, "InboundFailure") /\ UNCHANGED <<locks, listeners>>
    \/ \E a \in Nodes, b \in Nodes : swarm_accept(a, b) /\ UNCHANGED <<locks, listeners>>
    \/ \E a \in Nodes, b \in Nodes : swarm_connect(a, b) /\ UNCHANGED <<locks, listeners>>
    \/ \E a \in Nodes, b \in Nodes : swarm_close(a, b) /\ UNCHANGED <<locks, listeners>>
    \/ \E a \in Nodes, b \in Nodes : swarm_deliver(a, b) /\ UNCHANGED <<locks, listeners>>

SpecFail == InitFail /\ [][NextFail]_vars

\* SpecNoise: sp1 dials sp2 and sends it a request, and the connection may
\* close; the swarms also yield an event of their own, and the operator
\* switches the ping output.
NoiseMaxRequests == 1
NoiseMaxCloses == 1
NoiseMaxEmits == 1
NoiseMaxSwitches == 1

InitNoise ==
    InitWith([NoBudget EXCEPT !.clients = NoiseMaxRequests, !.closes = NoiseMaxCloses,
                              !.emits = NoiseMaxEmits, !.switches = NoiseMaxSwitches],
             [n \in Nodes |-> Nodes \ {n}], LockDials)

NextNoise ==
    \/ \E n \in Nodes : \E peer_id \in connected_peers[n], command \in Commands :
            send_request_to_sphagnum(n, peer_id, command) /\ UNCHANGED <<locks, listeners>>
    \/ \E n \in Nodes, on \in BOOLEAN : switch_pinging_output(n, on) /\ UNCHANGED <<locks, listeners>>
    \/ \E n \in Nodes : handle_event_ConnectionEstablished(n) /\ UNCHANGED <<locks, listeners>>
    \/ \E n \in Nodes : handle_event_ConnectionClosed(n) /\ UNCHANGED <<locks, listeners>>
    \/ \E n \in Nodes : handle_event_log(n) /\ UNCHANGED <<locks, listeners>>
    \/ \E n \in Nodes : handle_event_Request(n) /\ UNCHANGED <<locks, listeners>>
    \/ \E n \in Nodes : handle_event_default(n) /\ UNCHANGED <<locks, listeners>>
    \/ \E n \in Nodes : handle_event_default_next(n) /\ UNCHANGED <<locks, listeners>>
    \/ \E n \in Nodes, type \in LogOnlyEvents : swarm_emits(n, type) /\ UNCHANGED <<locks, listeners>>
    \/ \E a \in Nodes, b \in Nodes : swarm_accept(a, b) /\ UNCHANGED <<locks, listeners>>
    \/ \E a \in Nodes, b \in Nodes : swarm_connect(a, b) /\ UNCHANGED <<locks, listeners>>
    \/ \E a \in Nodes, b \in Nodes : swarm_close(a, b) /\ UNCHANGED <<locks, listeners>>
    \/ \E a \in Nodes, b \in Nodes : swarm_deliver(a, b) /\ UNCHANGED <<locks, listeners>>

SpecNoise == InitNoise /\ [][NextNoise]_vars

\* SpecEngine: one engine (that of node 1) is given commands over two keys,
\* with empty and non-empty values and key lists with repetitions.
EngineMaxCommands == 3
EngineMaxKeys == 2

EngineKeys == {"a", "b"}
EngineValues == {"", "x"}
EngineKeyLists == UNION {[1..m -> EngineKeys] : m \in 0..EngineMaxKeys}
EngineCommands ==
    {StringCommand_Set(k, v) : k \in EngineKeys, v \in EngineValues}
        \cup {StringCommand_Get(k) : k \in EngineKeys}
        \cup {StringCommand_Append(k, v) : k \in EngineKeys, v \in EngineValues}
        \cup {GenericCommand_Exists(ks) : ks \in EngineKeyLists}
        \cup {GenericCommand_Delete(ks) : ks \in EngineKeyLists}

InitEngine ==
    InitWith([NoBudget EXCEPT !.locals = EngineMaxCommands], [n \in Nodes |-> {}], {})

NextEngine ==
    \E command \in EngineCommands : handle_command(1, command) /\ UNCHANGED <<locks, listeners>>

SpecEngine == InitEngine /\ [][NextEngine]_vars

\* ping::Behaviour::default(): the swarm of a node that has a connection
\* yields a ping result at every interval, for as long as the connection
\* lasts.  One ping at a time waits in the queue of the node.
swarm_pings(n) ==
    /\ \E m \in Nodes \ {n} : links[{n, m}] > 0
    /\ swarm_events[n] = <<>>
    /\ swarm_events' = [swarm_events EXCEPT ![n] = Append(@, SwarmEvent("Ping", 0))]
    /\ last' = Step("Swarm", 0)
    /\ UNCHANGED <<data_storage, passport, connected_peers, replica_set,
                   is_pinging_output_enabled, wire, links, dialing, pc, alive,
                   next_request_id, budget, applied, handled, log>>

\* SpecWait: the event loops and the harness contend for the node mutexes as
\* in SpecLock, sp1 dials sp2, and the connected swarms go on yielding ping
\* results.  Every task that can take a step eventually takes one, and so
\* does every swarm.
WaitMaxRequests == 1
WaitMaxCommands == 1
WaitCommands == {StringCommand_Set("k", "v")}

InitWait ==
    InitWith([NoBudget EXCEPT !.clients = WaitMaxRequests, !.locals = WaitMaxCommands],
             [n \in Nodes |-> Nodes \ {n}], LockDials)

loop_handles(n) ==
    \/ loop_holds(n) /\ handle_event_ConnectionEstablished(n) /\ loop_returns(n)
            /\ UNCHANGED listeners
    \/ loop_holds(n) /\ handle_event_log(n) /\ loop_returns(n)
            /\ UNCHANGED listeners
    \/ loop_holds(n) /\ handle_event_Request(n) /\ loop_returns(n)
            /\ UNCHANGED listeners
    \/ loop_holds(n) /\ handle_event_default(n) /\ loop_returns(n)
            /\ UNCHANGED listeners
    \/ loop_holds(n) /\ handle_event_default_next(n) /\ loop_returns(n)
            /\ UNCHANGED listeners

harness_runs(n) ==
    \/ \E command \in WaitCommands :
            harness_holds(n) /\ handle_command(n, command) /\ harness_returns(n)
            /\ UNCHANGED listeners
    \/ \E peer_id \in Nodes \ {n}, command \in WaitCommands :
            /\ harness_holds(n)
            /\ send_request_to_sphagnum(n, peer_id, command)
            /\ harness_returns(n)
            /\ UNCHANGED listeners

swarm_steps ==
    \/ \E a \in Nodes, b \in Nodes : swarm_accept(a, b) /\ UNCHANGED <<locks, listeners>>
    \/ \E a \in Nodes, b \in Nodes : swarm_connect(a, b) /\ UNCHANGED <<locks, listeners>>
    \/ \E a \in Nodes, b \in Nodes : swarm_deliver(a, b) /\ UNCHANGED <<locks, listeners>>

NextWait ==
    \/ \E n \in Nodes : loop_lock(n)
    \/ \E n \in Nodes : loop_handles(n)
    \/ \E n \in Nodes : harness_calls(n)
    \/ \E n \in Nodes : harness_lock(n)
    \/ \E n \in Nodes : harness_runs(n)
    \/ \E n \in Nodes : swarm_pings(n) /\ UNCHANGED <<locks, listeners>>
    \/ swarm_steps

SpecWait ==
    /\ InitWait
    /\ [][NextWait]_vars
    /\ \A n \in Nodes : WF_vars(loop_lock(n)) /\ WF_vars(loop_handles(n))
    /\ \A n \in Nodes : WF_vars(harness_lock(n)) /\ WF_vars(harness_runs(n))
    /\ \A n \in Nodes : WF_vars(swarm_pings(n) /\ UNCHANGED <<locks, listeners>>)
    /\ WF_vars(swarm_steps)

\* SpecRender: sp1 and sp2 dial each other and sp1 sends sp2 two requests,
\* each any of the five commands; the replica sets are those of main.
RenderMaxRequests == 2
RenderDials == {<<1, 2>>, <<2, 1>>}

InitRender ==
    InitWith([NoBudget EXCEPT !.clients = RenderMaxRequests],
             [n \in Nodes |-> Nodes \ {n}], RenderDials)

NextRender ==
    \/ \E command \in Commands : order_send_request(command) /\ UNCHANGED <<locks, listeners>>
    \/ \E n \in Nodes : handle_event_ConnectionEstablished(n) /\ UNCHANGED <<locks, listeners>>
    \/ \E n \in Nodes : handle_event_log(n) /\ UNCHANGED <<locks, listeners>>
    \/ \E n \in Nodes : handle_event_Request(n) /\ UNCHANGED <<locks, listeners>>
    \/ \E n \in Nodes : handle_event_default(n) /\ UNCHANGED <<locks, listeners>>
    \/ \E n \in Nodes : handle_event_default_next(n) /\ UNCHANGED <<locks, listeners>>
    \/ \E a \in Nodes, b \in Nodes : swarm_accept(a, b) /\ UNCHANGED <<locks, listeners>>
    \/ \E a \in Nodes, b \in Nodes : swarm_connect(a, b) /\ UNCHANGED <<locks, listeners>>
    \/ \E a \in Nodes, b \in Nodes : swarm_deliver(a, b) /\ UNCHANGED <<locks, listeners>>

SpecRender == InitRender /\ [][NextRender]_vars

\* SpecHop: the cluster of main.rs, every node replicating to every other,
\* while sp1 and sp2 dial each other and sp2 dials sp3; a node sends a client
\* request to another at any moment.  Every event loop that has an event to handle
\* eventually handles it, and the swarms eventually carry what they hold.
HopMaxRequests == 1

InitHop ==
    InitWith([NoBudget EXCEPT !.clients = HopMaxRequests],
             [n \in Nodes |-> Nodes \ {n}], OrderDials)

hop_loop(n) ==
    \/ handle_event_ConnectionEstablished(n) /\ UNCHANGED <<locks, listeners>>
    \/ handle_event_log(n) /\ UNCHANGED <<locks, listeners>>
    \/ handle_event_Request(n) /\ UNCHANGED <<locks, listeners>>
    \/ handle_event_default(n) /\ UNCHANGED <<locks, listeners>>
    \/ handle_event_default_next(n) /\ UNCHANGED <<locks, listeners>>

NextHop ==
    \/ \E n \in Nodes : \E peer_id \in Nodes \ {n}, command \in Commands :
            send_request_to_sphagnum(n, peer_id, command) /\ UNCHANGED <<locks, listeners>>
    \/ \E n \in Nodes : hop_loop(n)
    \/ swarm_steps

SpecHop ==
    /\ InitHop
    /\ [][NextHop]_vars
    /\ \A n \in Nodes : WF_vars(hop_loop(n))
    /\ WF_vars(swarm_steps)

\* SpecNew: three nodes just built by SphagnumNode::new.  The harness has
\* sp2 or sp3 listen, has sp1 dial addresses (one of them malformed), add a
\* replica, switch its ping output on and run a Set; a dial reaches a
\* listener or fails.
NewMaxListens == 1
NewMaxDials == 2
NewMaxReplicaAdds == 1
NewMaxSwitches == 1
NewMaxCommands == 1

InitNew ==
    InitNodes([NoBudget EXCEPT !.listens = NewMaxListens, !.dials = NewMaxDials,
                               !.adds = NewMaxReplicaAdds, !.switches = NewMaxSwitches,
                               !.locals = NewMaxCommands],
              [n \in Nodes |-> {}], {}, {})

NextNew ==
    \/ \E n \in Nodes \ {1} : listen_on(n, ListenAddr(n)) /\ UNCHANGED locks
    \/ \E remote_addr \in Addresses : dial(1, remote_addr) /\ UNCHANGED <<locks, listeners>>
    \/ \E peer_id \in Nodes \ {1} :
            add_to_replica_set(1, peer_id) /\ UNCHANGED <<locks, listeners>>
    \/ switch_pinging_output(1, TRUE) /\ UNCHANGED <<locks, listeners>>
    \/ handle_command(1, StringCommand_Set("k", "v")) /\ UNCHANGED <<locks, listeners>>
    \/ \E n \in Nodes : handle_event_ConnectionEstablished(n) /\ UNCHANGED <<locks, listeners>>
    \/ \E n \in Nodes : handle_event_log(n) /\ UNCHANGED <<locks, listeners>>
    \/ \E n \in Nodes : handle_event_default(n) /\ UNCHANGED <<locks, listeners>>
    \/ \E n \in Nodes : handle_event_default_next(n) /\ UNCHANGED <<locks, listeners>>
    \/ \E a \in Nodes, b \in Nodes : swarm_accept(a, b) /\ UNCHANGED <<locks, listeners>>
    \/ \E a \in Nodes, b \in Nodes : swarm_connect(a, b) /\ UNCHANGED <<locks, listeners>>
    \/ \E a \in Nodes, b \in Nodes : swarm_dial_fails(a, b) /\ UNCHANGED <<locks, listeners>>

SpecNew == InitNew /\ [][NextNew]_vars

-----------------------------------------------------------------------------
(* Properties                                                              *)

\* C1: a node that handles a request marked is_replication = true sends no
\* request to any peer; it applies the command to its own store and sends
\* the response back to the node the request came from.
C1_ReplicationIsNotAmplified ==
    (last.kind = "Request" /\ last.is_replication) =>
        /\ last.sent = <<>>
        /\ data_storage[last.node] =
               StringStore_handle_command(last.before, last.command).data
        /\ last.responded = "sent"
        /\ LET back == wire[<<last.node, last.peer>>]
           IN  back # <<>> /\ back[Len(back)] = SphagnumResponse(last.payload)

\* A replica with connected replicas of its own has handled a replicated Set.
C1_Witness ==
    /\ last.kind = "Request"
    /\ last.is_replication
    /\ last.command.op = "Set"
    /\ (last.replicas \cap last.connected) \ {last.node} # {}
    /\ "k" \in DOMAIN data_storage[last.node]

\* C2: a client request carrying Get or Exists never makes the handling
\* node send a request to a peer.
C2_ReadsDoNotFanOut ==
    (last.kind = "Request" /\ ~last.is_replication
        /\ last.command.op \in {"Get", "Exists"}) => last.sent = <<>>

\* C3: a node that handles a client request carrying Set, Append or Delete
\* sends exactly one request to each peer that is in its replica set and in
\* its connected peers and is not itself, and to no other peer.
C3_FanOutTargets ==
    (last.kind = "Request" /\ ~last.is_replication
        /\ last.command.op \in {"Set", "Append", "Delete"}) =>
        LET targets == (last.replicas \cap last.connected) \ {last.node}
        IN  /\ {last.sent[i].to : i \in DOMAIN last.sent} = targets
            /\ Len(last.sent) = Cardinality(targets)

\* A node that is a member of its own replica set has fanned a command out.
C3_Witness ==
    /\ last.kind = "Request"
    /\ ~last.is_replication
    /\ last.command.op \in {"Set", "Append", "Delete"}
    /\ last.sent # <<>>
    /\ last.node \in last.replicas

\* C4: every request a node sends while it handles a request carries
\* is_replication = true and the command of the request being handled.
C4_FanOutIsMarked ==
    last.kind = "Request" =>
        \A i \in DOMAIN last.sent :
            /\ last.sent[i].is_replication
            /\ last.sent[i].command = last.command

\* A client Append has been fanned out and its copy is on the wire.
C4_Witness ==
    /\ last.kind = "Request"
    /\ last.command.op = "Append"
    /\ \E i \in DOMAIN last.sent :
           /\ wire[<<last.node, last.sent[i].to>>] # <<>>
           /\ \E j \in DOMAIN wire[<<last.node, last.sent[i].to>>] :
                  wire[<<last.node, last.sent[i].to>>][j].type = "Request"

\* C5: once nothing is in flight any more, for every client request
\* carrying Set, Append or Delete that its receiver N has handled: N applied
\* it exactly once, every peer of N's replica set that was among N's
\* connected peers applied it exactly once, and no replica sent a further
\* request for it.
C5_ReplicatedExactlyOnce ==
    Quiescent =>
        \A o \in DOMAIN handled :
            (handled[o].done /\ handled[o].command.op \in {"Set", "Append", "Delete"}) =>
                /\ Count(applied[handled[o].to], o) = 1
                /\ \A p \in (handled[o].replicas \cap handled[o].connected) \ {handled[o].to} :
                       Count(applied[p], o) = 1
                /\ ~handled[o].refanned

\* C6: in the cluster of three connected nodes with full replica sets,
\* once a client Set, Append or Delete sent by a node to another has been
\* issued and nothing is in flight any more, Get and Exists of the key give
\* the same result on all three nodes, the one the command leaves behind.
C6_ClusterAgrees ==
    (Quiescent /\ (\A a \in Nodes : \A b \in Nodes \ {a} : Linked(a, b))) =>
        \A o \in DOMAIN handled :
            handled[o].command.op \in {"Set", "Append", "Delete"} =>
                \A n \in Nodes :
                    /\ StringStore_get(data_storage[n], "k") =
                           StringStore_get(
                               StringStore_handle_command(StringStore_new,
                                                          handled[o].command).data, "k")
                    /\ StringStore_exists(data_storage[n], <<"k">>) =
                           StringStore_exists(
                               StringStore_handle_command(StringStore_new,
                                                          handled[o].command).data, <<"k">>)

\* C7: after a node has processed a connection event about a peer, the peer
\* is in its connected_peers exactly if a connection to it remains.
C7_ConnectedIffEstablished ==
    last.kind \in {"ConnectionEstablished", "ConnectionClosed"} =>
        (last.peer \in connected_peers[last.node] <=> last.num_established > 0)

\* C8: no event is taken off the swarm without being dispatched to the
\* case of its kind.
C8_OneEventPerCall == last.kind # "Discarded"

\* C9: handle_command changes the store of its own node as the engine
\* says, and nothing else: no request is sent, no event is queued, the
\* peer sets and the stores of the other nodes stay as they are.
C9_HandleCommandIsLocal ==
    [][last'.kind = "HandleCommand" =>
          /\ data_storage' =
                 [data_storage EXCEPT ![last'.node] =
                     StringStore_handle_command(@, last'.command).data]
          /\ UNCHANGED <<wire, swarm_events, next_request_id, connected_peers,
                         replica_set, passport, links>>]_vars

\* A node with a connected replica has run a mutating command locally.
C9_Witness ==
    /\ last.kind = "HandleCommand"
    /\ last.command.op \in {"Set", "Append", "Delete"}
    /\ peers_to_replicate(last.node) # {}
    /\ "k" \in DOMAIN data_storage[last.node]

\* C10: send_request_to_sphagnum hands the swarm exactly one request, to
\* the peer it was given, connected or not, with is_replication = false and
\* the command unchanged, and returns the id of that request.
C10_ClientRequestIsUnmarked ==
    last.kind = "SendRequest" =>
        /\ Len(last.sent) = 1
        /\ last.sent[1].to = last.peer
        /\ last.sent[1].command = last.command
        /\ ~last.sent[1].is_replication
        /\ last.sent[1].request_id = next_request_id[last.node] - 1
        /\ last.ok

\* A request has been handed to the swarm for a peer without a connection.
C10_Witness ==
    /\ last.kind = "SendRequest"
    /\ ~Linked(last.node, last.peer)
    /\ last.command.op = "Delete"
    /\ swarm_events[last.node] # <<>>

\* C11: after Set{k, v}, whatever the keyspace was and also for the empty
\* value, the Set has returned Str("OK"), Get{k} returns Str(v) and
\* Exists{[k]} returns Int(1); a Set on a key already bound overwrites it.
C11_SetThenGet ==
    (last.kind = "HandleCommand" /\ last.command.op = "Set") =>
        LET data == data_storage[last.node]
            k == last.command.key
        IN  /\ last.ok
            /\ last.result = CommandResult_String("OK")
            /\ StringStore_handle_command(data, StringCommand_Get(k)).val =
                   CommandResult_String(last.command.value)
            /\ StringStore_handle_command(data, GenericCommand_Exists(<<k>>)).val =
                   CommandResult_Int(1)

\* A key bound to a non-empty value has been set to the empty value.
C11_Witness ==
    /\ last.kind = "HandleCommand"
    /\ last.command.op = "Set"
    /\ last.command.value = ""
    /\ last.command.key \in DOMAIN last.before
    /\ last.before[last.command.key] = "x"

\* C12: after Delete{[k]}, whether or not k was present, Get{k} returns Nil
\* and Exists{[k]} returns Int(0).
C12_DeleteThenGet ==
    (last.kind = "HandleCommand" /\ last.command.op = "Delete"
        /\ Len(last.command.keys) = 1) =>
        LET data == data_storage[last.node]
            k == last.command.keys[1]
        IN  /\ StringStore_handle_command(data, StringCommand_Get(k)).val =
                   CommandResult_Nil
            /\ StringStore_handle_command(data, GenericCommand_Exists(<<k>>)).val =
                   CommandResult_Int(0)

\* A present key has been deleted on its own.
C12_Witness ==
    /\ last.kind = "HandleCommand"
    /\ last.command.op = "Delete"
    /\ Len(last.command.keys) = 1
    /\ last.command.keys[1] \in DOMAIN last.before
    /\ last.result = CommandResult_Int(1)

\* C13: when Set{k, v1} is followed at once by Append{k, v2}, the Append
\* returns Int(len(v1) + len(v2)) and Get{k} then returns Str(v1 ++ v2).
C13_SetAppendGet ==
    LET calls == log[last.node]
        m == Len(calls)
    IN  (last.kind = "HandleCommand" /\ m >= 2 /\ calls[m].op = "Append"
            /\ calls[m - 1].op = "Set" /\ calls[m - 1].key = calls[m].key) =>
            /\ last.result =
                   CommandResult_Int(Len(calls[m - 1].value) + Len(calls[m].value))
            /\ StringStore_handle_command(data_storage[last.node],
                                          StringCommand_Get(calls[m].key)).val =
                   CommandResult_String(calls[m - 1].value \o calls[m].value)

\* Two non-empty values have been set and appended under one key.
C13_Witness ==
    LET calls == log[1]
    IN  /\ last.kind = "HandleCommand"
        /\ Len(calls) >= 2
        /\ calls[Len(calls)] = StringCommand_Append("a", "x")
        /\ calls[Len(calls) - 1] = StringCommand_Set("a", "x")
        /\ last.result = CommandResult_Int(2)

\* C14: Append{k, v} on a keyspace without k binds k to exactly v, also for
\* the empty v, and returns Int(len(v)); Get{k} then returns Str(v) and
\* Exists{[k]} returns Int(1).
C14_AppendCreates ==
    (last.kind = "HandleCommand" /\ last.command.op = "Append"
        /\ last.command.key \notin DOMAIN last.before) =>
        LET data == data_storage[last.node]
            k == last.command.key
        IN  /\ k \in DOMAIN data
            /\ data[k] = last.command.value
            /\ last.result = CommandResult_Int(Len(last.command.value))
            /\ StringStore_handle_command(data, StringCommand_Get(k)).val =
                   CommandResult_String(last.command.value)
            /\ StringStore_handle_command(data, GenericCommand_Exists(<<k>>)).val =
                   CommandResult_Int(1)

\* The empty value has been appended to an absent key.
C14_Witness ==
    /\ last.kind = "HandleCommand"
    /\ last.command.op = "Append"
    /\ last.command.value = ""
    /\ last.command.key \notin DOMAIN last.before
    /\ last.command.key \in DOMAIN data_storage[last.node]

\* C15: Exists{ks} returns the number of positions of ks that hold a present
\* key: a present key listed twice counts twice, an absent key counts zero.
C15_ExistsCountsPositions ==
    (last.kind = "HandleCommand" /\ last.command.op = "Exists") =>
        LET ks == last.command.keys
        IN  /\ last.result =
                   CommandResult_Int(
                       Cardinality({i \in DOMAIN ks : ks[i] \in DOMAIN last.before}))
            /\ data_storage[last.node] = last.before

\* A present key has been listed twice.
C15_Witness ==
    /\ last.kind = "HandleCommand"
    /\ last.command.op = "Exists"
    /\ last.command.keys = <<"a", "a">>
    /\ "a" \in DOMAIN last.before
    /\ last.result = CommandResult_Int(2)

\* C16: Delete{ks} returns the number of distinct keys of ks that were
\* present when it was called, and afterwards no key of ks is present.
C16_DeleteCountsDistinct ==
    (last.kind = "HandleCommand" /\ last.command.op = "Delete") =>
        LET ks == last.command.keys
            listed == {ks[i] : i \in DOMAIN ks}
        IN  /\ last.result = CommandResult_Int(Cardinality(listed \cap DOMAIN last.before))
            /\ listed \cap DOMAIN data_storage[last.node] = {}

\* A present key has been listed twice in a Delete.
C16_Witness ==
    /\ last.kind = "HandleCommand"
    /\ last.command.op = "Delete"
    /\ last.command.keys = <<"b", "b">>
    /\ "b" \in DOMAIN last.before
    /\ last.result = CommandResult_Int(1)

\* C17: a key is present exactly if some Set or Append naming it was applied
\* with no Delete listing it afterwards; Get and Exists leave the keyspace
\* as it was.
C17_PresenceFollowsHistory ==
    LET calls == log[1]
        Binds(i, k) == calls[i].op \in {"Set", "Append"} /\ calls[i].key = k
        Unbinds(j, k) ==
            calls[j].op = "Delete" /\ \E x \in DOMAIN calls[j].keys : calls[j].keys[x] = k
    IN  /\ \A k \in EngineKeys :
               k \in DOMAIN data_storage[1] <=>
                   \E i \in DOMAIN calls :
                       Binds(i, k) /\ \A j \in (i + 1)..Len(calls) : ~Unbinds(j, k)
        /\ (last.kind = "HandleCommand" /\ last.command.op \in {"Get", "Exists"}) =>
               data_storage[last.node] = last.before

\* A key set, deleted and created again by an Append is present.
C17_Witness ==
    /\ Len(log[1]) = 3
    /\ log[1][1].op = "Set" /\ log[1][1].key = "a"
    /\ log[1][2].op = "Delete" /\ log[1][2].keys = <<"b", "a">>
    /\ log[1][3].op = "Append" /\ log[1][3].key = "a"
    /\ "a" \in DOMAIN data_storage[1]

\* C18: after any sequence of set_field calls on a new passport, failed ones
\* included, the field is not empty and get_field succeeds with the argument
\* of the last successful set_field, or with "lawn" if none succeeded.
C18_PassportFieldNeverEmpty ==
    LET calls == log[1]
        stored == {i \in DOMAIN calls : calls[i].op = "set_field" /\ calls[i].ok}
        expected == IF stored = {} THEN "lawn"
                    ELSE calls[CHOOSE i \in stored : \A j \in stored : j <= i].arg
    IN  /\ passport[1] # ""
        /\ Passport_get_field(passport[1]) =
               [ok |-> TRUE, val |-> CommandResult_String(expected)]
        /\ last.kind = "GetField" =>
               last.ok /\ last.result = CommandResult_String(expected)

\* get_field has answered after a successful and then a failed set_field.
C18_Witness ==
    /\ last.kind = "GetField"
    /\ Len(log[1]) = 3
    /\ log[1][1] = [op |-> "set_field", arg |-> "moss", ok |-> TRUE]
    /\ log[1][2] = [op |-> "set_field", arg |-> "", ok |-> FALSE]
    /\ last.result = CommandResult_String("moss")

\* C19: set_field with the empty string returns the field-modification
\* error and leaves the field as it was; with a non-empty string it returns
\* success and stores the string.
C19_SetFieldChecksItsArgument ==
    [][last'.kind = "SetField" =>
          IF last'.payload = ""
          THEN /\ ~last'.ok
               /\ last'.result = PassportError("FieldModificationError")
               /\ passport' = passport
          ELSE /\ last'.ok
               /\ last'.result = PassportOk
               /\ passport' = [passport EXCEPT ![last'.node] = last'.payload]]_vars

\* set_field has refused the empty string on a passport that had been set.
C19_Witness ==
    /\ last.kind = "SetField"
    /\ last.payload = ""
    /\ ~last.ok
    /\ passport[1] = "fern"

\* C20: when the engine returns an error for the command of an inbound
\* request, whatever the command, the node sends a response whose payload
\* is "Error: " followed by the error message, sends no request to a peer,
\* and its event loop goes on.
C20_EngineErrorPayload ==
    (last.kind = "Request" /\ ~last.ok) =>
        /\ last.payload = "Error: " \o last.result.s
        /\ last.responded = "sent"
        /\ last.sent = <<>>
        /\ alive[last.node]
        /\ data_storage[last.node] = last.before

\* C21: when sending the response of a request fails (its requester has
\* disconnected), only that request is lost: the event loop of the node goes
\* on, and the change the request made to the keyspace remains.
C21_ResponseFailureLosesOneRequest ==
    (last.kind = "Request" /\ last.responded = "failed") =>
        /\ alive[last.node]
        /\ data_storage[last.node] =
               request_outcome(last.before, [command |-> last.command,
                                             is_replication |-> last.is_replication]).data

\* C22: at every moment at most one task is inside a node (holds the guard
\* of its mutex); while a handle_event call of the node is under way its
\* event loop is that task, and a call of the harness on the node never
\* lands inside a handle_event call.
C22_MutualExclusionPerNode ==
    \A n \in Nodes :
        /\ Cardinality(mutex[n]) <= 1
        /\ pc[n] = "default_await" => mutex[n] = {n}
        /\ (last.node = n /\ last.kind \in {"HandleCommand", "SendRequest"}) =>
               pc[n] = "select"

\* The harness waits for the mutex of a node whose event loop is in the
\* middle of a handle_event call.
C22_Witness ==
    \E n \in Nodes :
        /\ task[Harness] = [at |-> "queued", node |-> n]
        /\ pc[n] = "default_await"
        /\ mutex[n] = {n}

\* C23: no task holds the guards of two nodes at once, an event loop only
\* ever holds the guard of its own node, and the tasks are never all blocked
\* on a mutex that another task holds.
C23_NoNestedLocksNoDeadlock ==
    /\ \A t \in Tasks : Cardinality({n \in Nodes : t \in mutex[n]}) <= 1
    /\ \A n \in Nodes : mutex[n] \subseteq {n, Harness}
    /\ ~ \A t \in Tasks :
             task[t].at \in {"lock", "queued"} /\ mutex[task[t].node] \ {t} # {}

\* The harness, after an earlier call, holds the guard of one node while
\* the loop of another node holds its own and the loop of the first waits.
C23_Witness ==
    \E n \in Nodes, m \in Nodes :
        /\ n # m
        /\ mutex[n] = {Harness}
        /\ task[n].at = "queued"
        /\ mutex[m] = {m}
        /\ budget.clients + budget.locals < LockMaxRequests + LockMaxCommands

\* C24: a replica set changes only in an add_to_replica_set step; no event
\* handled, no handle_command and no request sent changes one.  The call
\* add_to_replica_set(p) succeeds for any p, connected or not, leaves p a
\* member and every other membership as it was, so that adding a member
\* again changes nothing.
C24_ReplicaSetChangesOnlyByAdd ==
    [][/\ replica_set' # replica_set => last'.kind = "AddToReplicaSet"
       /\ last'.kind = "AddToReplicaSet" =>
              /\ last'.ok
              /\ replica_set' = [replica_set EXCEPT ![last'.node] = @ \cup {last'.peer}]
              /\ last'.peer \in replica_set[last'.node] => replica_set' = replica_set]_vars

\* Both additions went to one node and named the same peer, which the node
\* is not connected to.
C24_Witness ==
    /\ last.kind = "AddToReplicaSet"
    /\ budget.adds = 0
    /\ replica_set[last.node] = {last.peer}
    /\ \A n \in Nodes \ {last.node} : replica_set[n] = {}
    /\ last.peer \notin connected_peers[last.node]

\* C25: when one node has sent all the mutating commands for the key to one
\* other node, that node applies them in the order they were sent, and once
\* the cluster is quiet every replica it was connected to holds the value it
\* holds, however many commands were sent without waiting in between.
C25_SingleWriterOrder ==
    (budget.clients = 0 /\ Quiescent /\ \A n \in Nodes : pc[n] = "select") =>
        LET first == handled[OrderMaxRequests].command
            second == handled[OrderMaxRequests - 1].command
            sent == StringStore_handle_command(
                        StringStore_handle_command(StringStore_new, first).data,
                        second).data
        IN  /\ data_storage[2] = sent
            /\ \A r \in replica_set[2] :
                   (\A o \in DOMAIN handled :
                        handled[o].done /\ r \in handled[o].connected)
                       => data_storage[r] = data_storage[2]

\* C26: a well-formed get, set, append, exists or del line for a node with
\* no connected peer sends nothing and changes no node; for a node with
\* connected peers it sends exactly one request, not marked as a
\* replication, that carries the command of the line to a member of the
\* node's connected_peers.
C26_ShellSendsOneRequest ==
    [][LET line == last'.line
           n == last'.node
           verb == line[2]
           expected ==
               CASE verb \in {"get", "GET"} -> StringCommand_Get(line[3])
                 [] verb = "set" -> StringCommand_Set(line[3], line[4])
                 [] verb = "append" -> StringCommand_Append(line[3], line[4])
                 [] verb = "exists" -> GenericCommand_Exists(SubSeq(line, 3, Len(line)))
                 [] verb = "del" -> GenericCommand_Delete(SubSeq(line, 3, Len(line)))
           wellFormed ==
               /\ Len(line) >= 3
               /\ line[1] \in {"sp1", "sp2", "sp3"}
               /\ verb \in {"get", "GET", "set", "append", "exists", "del"}
               /\ verb \in {"set", "append"} => Len(line) >= 4
       IN  (last'.kind = "Shell" /\ wellFormed) =>
               IF connected_peers[n] = {}
               THEN /\ last'.sent = <<>>
                    /\ UNCHANGED <<data_storage, passport, connected_peers, replica_set,
                                   is_pinging_output_enabled, swarm_events, wire, links,
                                   dialing, pc, alive, next_request_id>>
               ELSE /\ Len(last'.sent) = 1
                    /\ ~last'.sent[1].is_replication
                    /\ last'.sent[1].command = expected
                    /\ last'.sent[1].to \in connected_peers[n]
                    /\ wire'[<<n, last'.sent[1].to>>] =
                           Append(wire[<<n, last'.sent[1].to>>],
                                  SphagnumRequest(expected, FALSE, last'.origin))]_vars

\* The second line, with its verb in capitals, sent a request to a connected
\* peer; the first line had sent none.
C26_Witness ==
    /\ last.kind = "Shell"
    /\ budget.clients = 0
    /\ Len(last.sent) = 1
    /\ last.sent[1].to \in last.connected
    /\ last.line[2] = "GET"
    /\ DOMAIN handled = {1}

C28_LostReplicationIsNotRetried ==
    [][/\ last'.kind = "Request" =>
              LET n == last'.node
                  r == StringStore_handle_command(data_storage[n], last'.command)
              IN  /\ data_storage'[n] = r.data
                  /\ last'.payload = CASE r.val.kind = "String" -> r.val.s
                                        [] r.val.kind = "Int" -> ToString(r.val.n)
                                        [] r.val.kind = "Nil" -> "nil"
       /\ (last'.kind = "Log" /\ last'.payload \in {"OutboundFailure", "InboundFailure"}) =>
              /\ last'.sent = <<>>
              /\ wire' = wire
              /\ next_request_id' = next_request_id
              /\ swarm_events' = [swarm_events EXCEPT ![last'.node] = Tail(@)]
              /\ data_storage' = data_storage]_vars

\* The node that handled the client request, and answered it, has handled
\* the failure of a replication request it had sent.
C28_Witness ==
    /\ last.kind = "Log"
    /\ last.payload = "OutboundFailure"
    /\ 1 \in DOMAIN handled
    /\ handled[1].done
    /\ handled[1].to = last.node
    /\ alive[last.node]

\* C29: handling a ping, a listen-address or external-address event, an
\* inbound response, a response-sent acknowledgment or an outbound or inbound
\* failure takes the event off the queue and does nothing else: keyspaces,
\* connected_peers, replica sets and passports stay as they are and nothing
\* is sent.  The ping switch decides whether a ping is printed, and nothing
\* more; every other event of these is printed whatever the switch says.
C29_LogOnlyEventsChangeNothing ==
    [][last'.kind = "Log" =>
          /\ last'.payload \in LogOnlyEvents \cup {"Response", "OutboundFailure"}
          /\ last'.sent = <<>>
          /\ last'.responded = "none"
          /\ swarm_events' = [swarm_events EXCEPT ![last'.node] = Tail(@)]
          /\ UNCHANGED <<data_storage, connected_peers, replica_set, passport,
                         is_pinging_output_enabled, wire, next_request_id, links,
                         dialing, pc, alive>>
          /\ last'.printed =
                 (last'.payload = "Ping" => is_pinging_output_enabled[last'.node])]_vars

\* A ping was handled, and printed, by a node whose ping output the operator
\* had switched on.
C29_Witness ==
    /\ last.kind = "Log"
    /\ last.payload = "Ping"
    /\ is_pinging_output_enabled[last.node]
    /\ last.printed

\* C30: in every keyspace state the engine answers every command with a
\* result of the kind of the command and never with an error: String("OK")
\* for Set, String or Nil for Get, Int for Append, Exists and Delete.  So the
\* node's match on the result of an inbound request, client-originated or
\* replicated, never takes the "Unexpected response" arm or an error arm:
\* the payload is the rendering of the result.
C30_EngineResultKinds ==
    \A command \in EngineCommands :
        LET r == DataStorage_handle_command(data_storage[1], command)
            kinds == CASE command.op = "Set" -> {"String"}
                       [] command.op = "Get" -> {"String", "Nil"}
                       [] command.op \in {"Append", "Exists", "Delete"} -> {"Int"}
            rendered == CASE r.val.kind = "String" -> r.val.s
                          [] r.val.kind = "Int" -> ToString(r.val.n)
                          [] r.val.kind = "Nil" -> "nil"
                          [] OTHER -> ""
        IN  /\ r.ok
            /\ r.val.kind \in kinds
            /\ command.op = "Set" => r.val.s = "OK"
            /\ \A is_replication \in BOOLEAN :
                   LET out == request_outcome(data_storage[1],
                                              [command |-> command,
                                               is_replication |-> is_replication])
                   IN  /\ out.payload # "Unexpected response"
                       /\ out.payload = rendered
                       /\ out.data = r.data

\* The engine, holding one key with a non-empty value, has just answered Nil
\* to a Get of the other key.
C30_Witness ==
    /\ last.kind = "HandleCommand"
    /\ last.command.op = "Get"
    /\ last.result = CommandResult_Nil
    /\ \E k \in EngineKeys : DOMAIN data_storage[1] = {k} /\ data_storage[1][k] = "x"

\* C31: Get{k} and Exists{ks} leave the keyspace exactly as it was, whatever
\* it holds and whatever the argument; Exists and Delete with an empty key
\* list return Int(0) and leave the keyspace as it was.
C31_ReadsAndEmptyListsChangeNothing ==
    last.kind = "HandleCommand" =>
        /\ last.command.op \in {"Get", "Exists"} =>
               data_storage[last.node] = last.before
        /\ (last.command.op \in {"Exists", "Delete"} /\ last.command.keys = <<>>) =>
               /\ last.ok
               /\ last.result = CommandResult_Int(0)
               /\ data_storage[last.node] = last.before

\* A Delete with an empty key list has run on a store that holds both keys.
C31_Witness ==
    /\ last.kind = "HandleCommand"
    /\ last.command.op = "Delete"
    /\ last.command.keys = <<>>
    /\ DOMAIN last.before = EngineKeys

\* C32: Set is idempotent on a fixed pair: in every keyspace state, Set{k, v}
\* applied twice in a row leaves the keyspace that one application leaves and
\* returns the same result.  Append is not: applying the same Append (of a
\* non-empty value) twice leaves a value and a result different from those
\* of one application, so a store that applied it twice differs from one
\* that applied it once.
C32_SetIdempotentAppendNot ==
    /\ \A command \in EngineCommands :
          LET once == DataStorage_handle_command(data_storage[1], command)
              twice == DataStorage_handle_command(once.data, command)
          IN  /\ command.op = "Set" =>
                     /\ twice.ok
                     /\ twice.data = once.data
                     /\ twice.val = once.val
              /\ (command.op = "Append" /\ command.value # "") =>
                     /\ twice.data # once.data
                     /\ twice.data[command.key] # once.data[command.key]
                     /\ twice.val # once.val
    /\ (/\ last.kind = "HandleCommand"
        /\ Len(log[1]) >= 2
        /\ log[1][Len(log[1])] = log[1][Len(log[1]) - 1]) =>
          /\ last.command.op = "Set" =>
                 data_storage[1] = last.before /\ last.result = CommandResult_String("OK")
          /\ (last.command.op = "Append" /\ last.command.value # "") =>
                 data_storage[1] # last.before

\* The engine has run the same Append of "x" twice in a row on a key that
\* was absent, and the key holds "xx".
C32_Witness ==
    /\ last.kind = "HandleCommand"
    /\ log[1] = <<StringCommand_Append("a", "x"), StringCommand_Append("a", "x")>>
    /\ last.before = [k \in {"a"} |-> "x"]
    /\ data_storage[1] = [k \in {"a"} |-> "xx"]
    /\ last.result = CommandResult_Int(2)

\* C33: the event loop holds the mutex of its node for one handle_event call
\* at a time and drops it between calls, so a harness or shell call that
\* waits for the mutex of a node is eventually granted it.
C33_WaitingCallIsGranted ==
    \A n \in Nodes :
        (task[Harness].node = n /\ task[Harness].at \in {"lock", "queued"})
            ~> harness_holds(n)

\* C34: the payload of the response a node sends for an inbound request,
\* client-originated or replicated, is the rendering of the local result:
\* "OK" for Set, the stored value for Get of a present key, "nil" for Get of
\* an absent key, and the decimal digits of the resulting length for Append,
\* of the count of listed positions present for Exists and of the number of
\* keys removed for Delete.
C34_PayloadRendersResult ==
    [][last'.kind = "Request" =>
          LET n == last'.node
              data == data_storage[n]
              command == last'.command
              op == command.op
              expected ==
                  CASE op = "Set" -> "OK"
                    [] op = "Get" -> IF command.key \in DOMAIN data THEN data[command.key]
                                                                    ELSE "nil"
                    [] op = "Append" -> ToString(Len(data_storage'[n][command.key]))
                    [] op = "Exists" ->
                           ToString(Cardinality({i \in 1..Len(command.keys) :
                                                    command.keys[i] \in DOMAIN data}))
                    [] op = "Delete" ->
                           ToString(Cardinality({command.keys[i] : i \in 1..Len(command.keys)}
                                                    \cap DOMAIN data))
              after == wire'[<<n, last'.peer>>]
          IN  /\ last'.payload = expected
              /\ last'.responded = "sent" =>
                     /\ after # <<>>
                     /\ after[Len(after)] = SphagnumResponse(expected)]_vars

\* An Append of "w" to a key holding "v" has been answered with "2".
C34_Witness ==
    /\ last.kind = "Request"
    /\ last.command = StringCommand_Append("k", "w")
    /\ last.before = [x \in {"k"} |-> "v"]
    /\ data_storage[last.node] = [x \in {"k"} |-> "vw"]
    /\ last.payload = "2"
    /\ last.responded = "sent"

\* The number of times the command of client request o has been applied in
\* the whole cluster, and the bound of the claim: the node it was sent to and
\* the connected replicas of that node.
Applications(counts, o) ==
    Cardinality({<<n, i>> \in Nodes \X (1..NumNodes) : i <= Count(counts[n], o)})

HopBound(hops, o) ==
    IF hops[o].done
    THEN 1 + Cardinality((hops[o].replicas \cap hops[o].connected) \ {hops[o].to})
    ELSE 0

\* C35: single-hop termination.  Each client request is applied at most
\* 1 + |replica_set \cap connected_peers minus self| times in the whole
\* cluster (sets of the node it was sent to), and causes at most that many
\* requests: the one the client sends, and one per connected replica sent by
\* the node that handles it; a node that handles a replicated request sends
\* none.  So, with every node replicating to every other, after finitely
\* many client requests the cluster comes to rest with no request or
\* response in flight.
C35_SingleHopTermination ==
    /\ [][/\ \A o \in DOMAIN handled' :
                 Applications(applied', o) <= HopBound(handled', o)
          /\ \A n \in Nodes : \A o \in DOMAIN applied'[n] : applied'[n][o] <= 1
          /\ last'.kind = "SendRequest" => Len(last'.sent) = 1
          /\ (last'.kind = "Request" /\ last'.is_replication) => last'.sent = <<>>
          /\ (last'.kind = "Request" /\ ~last'.is_replication) =>
                 /\ ~handled[last'.origin].done
                 /\ Len(last'.sent) + 1 <= HopBound(handled', last'.origin)
          /\ last'.kind \notin {"SendRequest", "Request"} => last'.sent = <<>>]_vars
    /\ <>[]Quiescent

\* The cluster is at rest after a Set sent by sp1 to sp2, which sp2 applied
\* and sent to both its replicas, sp1 among them, and which all three nodes
\* applied once.
C35_Witness ==
    /\ Quiescent
    /\ DOMAIN handled = {1}
    /\ handled[1].to = 2
    /\ handled[1].done
    /\ handled[1].command.op = "Set"
    /\ HopBound(handled, 1) = 3
    /\ Applications(applied, 1) = 3
    /\ \A n \in Nodes : "k" \in DOMAIN data_storage[n]

C37_DialDoesNotConnect ==
    [][/\ last'.kind = "Dial" =>
             /\ connected_peers' = connected_peers
             /\ UNCHANGED <<data_storage, passport, replica_set, is_pinging_output_enabled,
                            listeners, swarm_events, links, wire>>
             /\ ~last'.ok => (last'.peer = 0 /\ dialing' = dialing)
             /\ last'.ok => dialing' = dialing \cup {<<last'.node, last'.peer, FALSE>>}
       /\ \A n \in Nodes : \A p \in connected_peers'[n] \ connected_peers[n] :
             /\ last'.kind = "ConnectionEstablished"
             /\ last'.node = n
             /\ last'.peer = p
             /\ swarm_events[n] # <<>>
             /\ Head(swarm_events[n]).type = "ConnectionEstablished"
       /\ \A n \in Nodes :
             (/\ Len(swarm_events'[n]) > Len(swarm_events[n])
              /\ swarm_events'[n][Len(swarm_events'[n])].type = "ConnectionEstablished") =>
                 LET p == swarm_events'[n][Len(swarm_events'[n])].peer
                 IN  links'[{n, p}] = links[{n, p}] + 1
       /\ \A n \in Nodes : \A p \in connected_peers'[n] : links'[{n, p}] > 0]_vars

\* A dial of sp1 to a well-formed address has failed, sp1 has taken the
\* error off its swarm, and sp1 has no connected peer.
C37_Witness ==
    /\ last.kind = "Unhandled"
    /\ last.payload = "OutgoingConnectionError"
    /\ last.node = 1
    /\ connected_peers[1] = {}
    /\ \A p \in Pairs : links[p] = 0

\* SpecBack: sp1 and sp2 dial each other and sp2 dials sp3; the replica sets
\* start empty and are filled by add_to_replica_set on sp1 and sp2 at any
\* moment; sp1 sends sp2 one client request.
BackMaxRequests == 1
BackMaxReplicaAdds == 2
BackCommands ==
    {StringCommand_Set("k", "v"), StringCommand_Append("k", "v"), StringCommand_Get("k")}

InitBack ==
    InitWith([NoBudget EXCEPT !.clients = BackMaxRequests, !.adds = BackMaxReplicaAdds],
             [n \in Nodes |-> {}], OrderDials)

NextBack ==
    \/ \E n \in {1, 2} : \E peer_id \in Nodes \ {n} :
            add_to_replica_set(n, peer_id) /\ UNCHANGED <<locks, listeners>>
    \/ \E command \in BackCommands : order_send_request(command) /\ UNCHANGED <<locks, listeners>>
    \/ \E n \in Nodes : handle_event_ConnectionEstablished(n) /\ UNCHANGED <<locks, listeners>>
    \/ \E n \in Nodes : handle_event_log(n) /\ UNCHANGED <<locks, listeners>>
    \/ \E n \in Nodes : handle_event_Request(n) /\ UNCHANGED <<locks, listeners>>
    \/ \E n \in Nodes : handle_event_default(n) /\ UNCHANGED <<locks, listeners>>
    \/ \E n \in Nodes : handle_event_default_next(n) /\ UNCHANGED <<locks, listeners>>
    \/ \E a \in Nodes, b \in Nodes : swarm_accept(a, b) /\ UNCHANGED <<locks, listeners>>
    \/ \E a \in Nodes, b \in Nodes : swarm_connect(a, b) /\ UNCHANGED <<locks, listeners>>
    \/ \E a \in Nodes, b \in Nodes : swarm_deliver(a, b) /\ UNCHANGED <<locks, listeners>>

SpecBack == InitBack /\ [][NextBack]_vars

\* C38: sending a client request changes no keyspace, the sender's included.
\* A keyspace changes only in the step in which its node handles a request:
\* the receiver handles the client request itself, and any other node, the
\* sender included, handles a copy that the receiver forwarded, which needs
\* that node to be in the receiver's replica_set and connected_peers at the
\* moment the receiver handled the client request.  The copies the receiver
\* forwards go to exactly the connected members of its own replica_set,
\* whatever the sender's replica_set is.
C38_SenderKeyspaceFollowsReceiver ==
    [][/\ last'.kind = "SendRequest" =>
             /\ data_storage' = data_storage
             /\ applied' = applied
             /\ Len(last'.sent) = 1
             /\ last'.sent[1].to = last'.peer
             /\ ~last'.sent[1].is_replication
       /\ \A n \in Nodes :
             data_storage'[n] # data_storage[n] =>
                 /\ last'.kind = "Request"
                 /\ last'.node = n
                 /\ last'.origin \in DOMAIN handled
                 /\ LET h == handled[last'.origin]
                    IN  IF last'.is_replication
                        THEN /\ h.done
                             /\ n # h.to
                             /\ last'.peer = h.to
                             /\ n \in h.replicas
                             /\ n \in h.connected
                        ELSE n = h.to
       /\ (last'.kind = "Request" /\ ~last'.is_replication) =>
             LET b == last'.node
                 to == {last'.sent[i].to : i \in 1..Len(last'.sent)}
             IN  /\ to \subseteq (replica_set[b] \cap connected_peers[b]) \ {b}
                 /\ \A i \in 1..Len(last'.sent) : last'.sent[i].is_replication
                 /\ (last'.ok /\ last'.command.op \in {"Set", "Append", "Delete"}) =>
                        to = (replica_set[b] \cap connected_peers[b]) \ {b}]_vars

\* sp2 had sp1, and not sp3, in its replica_set and both among its connected
\* peers when it handled the request of sp1, whose replica_set holds sp3: the
\* key is now on sp2 and on sp1, and not on sp3, with nothing left to handle.
C38_Witness ==
    /\ BackMaxRequests \in DOMAIN handled
    /\ handled[BackMaxRequests].done
    /\ handled[BackMaxRequests].to = 2
    /\ handled[BackMaxRequests].replicas = {1}
    /\ handled[BackMaxRequests].connected = {1, 3}
    /\ replica_set[1] = {3}
    /\ "k" \in DOMAIN data_storage[1]
    /\ "k" \in DOMAIN data_storage[2]
    /\ "k" \notin DOMAIN data_storage[3]
    /\ Quiescent

\* C39: Set{k, v}, Append{k, v} and Delete{ks} change only the keys they
\* name: every key other than k (respectively not listed in ks) is present
\* after the command exactly if it was present before, with the same value.
C39_OnlyNamedKeysChange ==
    LET NamedKeys(command) ==
            IF command.op = "Delete"
            THEN {command.keys[i] : i \in 1..Len(command.keys)}
            ELSE {command.key}
        SameBinding(before, after, j) ==
            /\ (j \in DOMAIN after) = (j \in DOMAIN before)
            /\ j \in DOMAIN before => after[j] = before[j]
    IN  /\ \A command \in EngineCommands :
              command.op \in {"Set", "Append", "Delete"} =>
                  LET r == DataStorage_handle_command(data_storage[1], command)
                  IN  \A j \in EngineKeys \ NamedKeys(command) :
                          SameBinding(data_storage[1], r.data, j)
        /\ (last.kind = "HandleCommand" /\ last.command.op \in {"Set", "Append", "Delete"}) =>
              \A j \in EngineKeys \ NamedKeys(last.command) :
                  SameBinding(last.before, data_storage[last.node], j)

\* An Append of "x" has changed the value of one key while the other key,
\* present with value "x", kept it.
C39_Witness ==
    /\ last.kind = "HandleCommand"
    /\ last.command.op = "Append"
    /\ last.command.value = "x"
    /\ data_storage[1][last.command.key] = "xx"
    /\ \E j \in EngineKeys \ {last.command.key} :
           /\ j \in DOMAIN last.before
           /\ last.before[j] = "x"
           /\ data_storage[1][j] = "x"

====
